---- MODULE Spec2Model ----
(***************************************************************************)
(* Model of the meal planner's planning engine (mealplanner/planner.py):   *)
(* generate_plan walks the 7 days and 4 meal slots, carrying pending       *)
(* leftovers from one day to the next and filtering candidates by slot     *)
(* tag, dinner effort and recency.  The plan is then written as JSON and  *)
(* read back by the groceries command (cli.py, io.py), which aggregates    *)
(* the grocery list (groceries.py); the history file is updated by         *)
(* HistoryStore.record_plan (history.py).                                  *)
(*                                                                         *)
(* Optional values are sequences of length at most one: None is <<>>, a    *)
(* present value x is <<x>>.  Calendar dates are day numbers; an ISO date  *)
(* string is a record that either carries a day number or is malformed.    *)
(***************************************************************************)
EXTENDS Integers, Sequences, FiniteSets, TLC

VARIABLES
    recipes,           \* argument: the catalog, a sequence of Recipe
    config,            \* argument: the WeekConfig
    history,           \* argument: Optional[PlanHistory]
    seed,              \* argument: Optional[int]
    pc,                \* position of the invocation
    rng,               \* random.Random(seed)
    recent_recipes,    \* set of recency-forbidden recipe ids
    pending_leftovers, \* day name -> (meal -> Recipe)
    day_index,         \* 1-based index into DAY_NAMES
    meal_index,        \* 1-based index into MEAL_TYPES
    skip_meals,        \* the current day's lower-cased skip set
    leftover_meals,    \* the current day's popped pending leftovers
    plan_days,         \* list of PlanDay built so far
    clock,             \* wall clock, in seconds
    returned,          \* plan dictionaries returned so far, oldest first
    plan_file,         \* the plan JSON file: None until it is written
    grocery_recipes,   \* groceries command: the catalog it loaded
    grocery_data,      \* groceries command: the configuration file's data
    grocery_items,     \* groceries command: Optional list of GroceryItem
    store,             \* the history file: None while it does not exist
    recorded,          \* arguments of the latest record_plan call, if any
    cli_pc,            \* plan command: position in _handle_plan
    history_path,      \* plan command: Optional path of the history file
    plan_md,           \* the plan Markdown file: None until it is written
    written,           \* plan command: the files it has written, in order
    conv_pc,           \* converter: position in _request_json
    max_retries,       \* converter: args.max_retries
    retry_delay,       \* converter: args.retry_delay
    attempt,           \* converter: the loop variable
    delay,             \* converter: the current wait
    requests,          \* converter: outcomes of the requests made, in order
    sleeps             \* converter: the waits made, in order

vars == <<recipes, config, history, seed, pc, rng, recent_recipes,
          pending_leftovers, day_index, meal_index, skip_meals,
          leftover_meals, plan_days, clock, returned, plan_file,
          grocery_recipes, grocery_data, grocery_items, store, recorded,
          cli_pc, history_path, plan_md, written, conv_pc, max_retries,
          retry_delay, attempt, delay, requests, sleeps>>

inputs == <<recipes, config, history, seed>>

locals == <<rng, recent_recipes, pending_leftovers, day_index, meal_index,
            skip_meals, leftover_meals, plan_days>>

groceries == <<plan_file, grocery_recipes, grocery_data, grocery_items>>

history_store == <<store, recorded>>

command == <<cli_pc, history_path, plan_md, written>>

converter == <<conv_pc, max_retries, retry_delay, attempt, delay, requests,
               sleeps>>

-----------------------------------------------------------------------------
(* Bounds of the model *)

MaxSeed == 1

MaxWindow == 2

MaxHistoryEntries == 2

MaxPlanWeeks == 1

MaxClock == 1

MaxInvocations == 2

MaxStoredWeeks == 3

-----------------------------------------------------------------------------
(* Optional values and elementary conversions *)

None == <<>>

Some(x) == <<x>>

Get(opt) == opt[1]

EmptyMap == [x \in {} |-> x]

\* str.lower() on the meal names that occur in configurations and on the
\* ingredient and pantry names
lower(s) ==
    CASE s = "Breakfast" -> "breakfast"
      [] s = "Lunch" -> "lunch"
      [] s = "Dinner" -> "dinner"
      [] s = "Snack" -> "snack"
      [] s = "Butter" -> "butter"
      [] s = "Tomato" -> "tomato"
      [] s = "TOMATO" -> "tomato"
      [] s = "Water" -> "water"
      [] OTHER -> s

\* date.isoformat(): the ISO string of a day number
isoformat(d) == [iso |-> TRUE, day |-> d]

\* a string that datetime.fromisoformat rejects
MalformedWeek == [iso |-> FALSE, day |-> 0]

\* datetime.fromisoformat(s).date(); None stands for the ValueError
fromisoformat(s) == IF s.iso THEN Some(s.day) ELSE None

RECURSIVE SeqToSet(_)
SeqToSet(s) == IF s = <<>> THEN {} ELSE {Head(s)} \cup SeqToSet(Tail(s))

RECURSIVE SelectSeq2(_, _)
\* [x for x in s if x.id not in ids]
SelectSeq2(s, ids) ==
    IF s = <<>> THEN <<>>
    ELSE IF Head(s).id \in ids THEN SelectSeq2(Tail(s), ids)
         ELSE <<Head(s)>> \o SelectSeq2(Tail(s), ids)

-----------------------------------------------------------------------------
(* models.py *)

DAY_NAMES == <<"Sunday", "Monday", "Tuesday", "Wednesday", "Thursday",
               "Friday", "Saturday">>

MEAL_TYPES == <<"breakfast", "lunch", "dinner", "snack">>

\* Recipe.total_time_min
total_time_min(recipe) == recipe.prep_time_min + recipe.cook_time_min

\* WeekConfig.day_date
day_date(cfg, index) == cfg.week_start_date + (index - 1)

\* WeekConfig.people
people == 2

allows_high_effort_dinner_default(cfg, day_name) ==
    IF day_name \in DOMAIN cfg.allow_high_effort_dinner
    THEN cfg.allow_high_effort_dinner[day_name]
    ELSE TRUE

\* WeekConfig.allows_high_effort_dinner
allows_high_effort_dinner(cfg, day_name) ==
    IF day_name \in DOMAIN cfg.allow_high_effort_dinner
    THEN cfg.allow_high_effort_dinner[day_name]
    ELSE FALSE

\* Ingredient(item=..., qty=..., unit=..., category=...)
Ingredient(item, qty, unit, category) ==
    [item |-> item, qty |-> qty, unit |-> unit, category |-> category]

\* PlanMeal(...)
PlanMeal(day, date, meal, id, name, time, leftover, source_id, source_name) ==
    [day_name |-> day, date |-> date, meal_type |-> meal,
     recipe_id |-> id, recipe_name |-> name,
     total_time_min |-> time, is_leftover |-> leftover,
     leftover_source_id |-> source_id,
     leftover_source_name |-> source_name]

\* PlanDay(day_name=..., date=...)
PlanDay(day_name, date) == [day_name |-> day_name, date |-> date, meals |-> <<>>]

-----------------------------------------------------------------------------
(* planner.py: candidate filters *)

HIGH_EFFORT_THRESHOLD_MIN == 30

RECURSIVE recipes_for_meal_untagged(_, _)
recipes_for_meal_untagged(rs, meal) ==
    IF rs = <<>> THEN <<>>
    ELSE <<Head(rs)>> \o recipes_for_meal_untagged(Tail(rs), meal)

RECURSIVE recipes_for_meal(_, _)
\* [recipe for recipe in recipes if meal in recipe.meals]
recipes_for_meal(rs, meal) ==
    IF rs = <<>> THEN <<>>
    ELSE IF meal \in SeqToSet(Head(rs).meals)
         THEN <<Head(rs)>> \o recipes_for_meal(Tail(rs), meal)
         ELSE recipes_for_meal(Tail(rs), meal)

filter_low_effort_dinners_or_all(rs, allow_high_effort) ==
    LET Quick(r) == total_time_min(r) <= HIGH_EFFORT_THRESHOLD_MIN
        kept == SelectSeq(rs, Quick)
    IN  IF allow_high_effort \/ kept = <<>> THEN rs ELSE kept

RECURSIVE filter_low_effort_dinners(_, _)
filter_low_effort_dinners(rs, allow_high_effort) ==
    IF allow_high_effort THEN rs
    ELSE IF rs = <<>> THEN <<>>
    ELSE IF total_time_min(Head(rs)) <= HIGH_EFFORT_THRESHOLD_MIN
         THEN <<Head(rs)>> \o filter_low_effort_dinners(Tail(rs), allow_high_effort)
         ELSE filter_low_effort_dinners(Tail(rs), allow_high_effort)

avoid_recent_recipes_strict(rs, forbidden) == SelectSeq2(rs, forbidden)

\* remaining or list(recipes)
avoid_recent_recipes(rs, forbidden) ==
    LET remaining == SelectSeq2(rs, forbidden)
    IN  IF remaining # <<>> THEN remaining ELSE rs

-----------------------------------------------------------------------------
(* planner.py: the random source.  random.Random(seed) is a deterministic  *)
(* generator when a seed is given (here a linear congruential generator)   *)
(* and is seeded from operating-system entropy otherwise, so that every    *)
(* draw may return any element.                                            *)

Random_unseeded(sd) == [seeded |-> FALSE, state |-> 0]

\* random.Random(seed)
Random(sd) ==
    IF sd = None THEN [seeded |-> FALSE, state |-> 0]
    ELSE [seeded |-> TRUE, state |-> Get(sd) % 32]

\* the indices rng.choice may pick in a sequence of length n > 0
choice_indices(r, n) ==
    IF r.seeded THEN {((r.state \div 4) % n) + 1} ELSE 1..n

\* the generator after one draw
after_draw(r) ==
    IF r.seeded THEN [r EXCEPT !.state = (5 * @ + 3) % 32] ELSE r

choose_recipe_unguarded(rs, r) ==
    IF rs = <<>>
    THEN {[raised |-> TRUE, recipe |-> None, rng |-> r]}
    ELSE {[raised |-> FALSE, recipe |-> Some(rs[i]), rng |-> after_draw(r)] :
            i \in choice_indices(r, Len(rs))}

\* _choose_recipe: the possible outcomes (the chosen recipe or None, and
\* the generator afterwards); raised marks an exception leaving the call
choose_recipe(rs, r) ==
    IF rs = <<>>
    THEN {[raised |-> FALSE, recipe |-> None, rng |-> r]}
    ELSE {[raised |-> FALSE, recipe |-> Some(rs[i]), rng |-> after_draw(r)] :
            i \in choice_indices(r, Len(rs))}

-----------------------------------------------------------------------------
(* planner.py: recency *)

forbids_all_history_negative(window) == window < 0

\* window <= 0: every historical week is forbidden
forbids_all_history(window) == window <= 0

in_window_from_zero(delta_weeks, window) ==
    0 <= delta_weeks /\ delta_weeks <= window

\* 0 < delta_weeks <= window
in_window(delta_weeks, window) ==
    0 < delta_weeks /\ delta_weeks <= window

RECURSIVE gather_loop(_, _, _, _)
\* the loop over history.items(), keys being the entries not yet visited
gather_loop(h, keys, cfg, forbidden) ==
    IF keys = {} THEN forbidden
    ELSE LET entry_week == CHOOSE k \in keys : TRUE
             recipe_ids == SeqToSet(h[entry_week])
             entry_date == fromisoformat(entry_week)
             rest       == keys \ {entry_week}
             window     == cfg.variability_window_weeks
         IN  IF entry_date = None
             THEN gather_loop(h, rest, cfg, forbidden)
             ELSE IF forbids_all_history(window)
             THEN gather_loop(h, rest, cfg, forbidden \cup recipe_ids)
             ELSE LET delta_weeks ==
                          (cfg.week_start_date - Get(entry_date)) \div 7
                  IN  IF in_window(delta_weeks, window)
                      THEN gather_loop(h, rest, cfg, forbidden \cup recipe_ids)
                      ELSE gather_loop(h, rest, cfg, forbidden)

\* _gather_recent_history
gather_recent_history(hist, cfg) ==
    IF hist = None \/ DOMAIN Get(hist) = {} THEN {}
    ELSE gather_loop(Get(hist), DOMAIN Get(hist), cfg, {})

\* the candidates of a slot, lines 136-140 of generate_plan
slot_candidates(rs, cfg, forbidden, day_name, meal) ==
    LET tagged == recipes_for_meal(rs, meal)
        base   == IF meal = "dinner"
                  THEN filter_low_effort_dinners(
                           tagged, allows_high_effort_dinner(cfg, day_name))
                  ELSE tagged
    IN  avoid_recent_recipes(base, forbidden)

-----------------------------------------------------------------------------
(* The arguments generate_plan is called with *)

Toast ==
    [id |-> "toast", name |-> "Toast", meals |-> <<"breakfast">>,
     prep_time_min |-> 5, cook_time_min |-> 2,
     produces_leftovers |-> FALSE, leftovers_replace_meal |-> Some("snack"),
     yields_prep_item |-> <<>>, servings_per_recipe |-> 1,
     ingredients |-> <<Ingredient("bread", 2, "slice", "bakery"),
                       Ingredient("Butter", 1, "tbsp", "dairy")>>]

Pasta ==
    [id |-> "pasta", name |-> "Pasta", meals |-> <<"lunch", "dinner">>,
     prep_time_min |-> 10, cook_time_min |-> 20,
     produces_leftovers |-> TRUE, leftovers_replace_meal |-> Some("lunch"),
     yields_prep_item |-> <<>>, servings_per_recipe |-> 2,
     ingredients |-> <<Ingredient("pasta", 200, "g", "grains"),
                       Ingredient("tomato", 1, "jar", "pantry"),
                       Ingredient("water", 2, "cups", "pantry")>>]

Roast ==
    [id |-> "roast", name |-> "Roast", meals |-> <<"dinner">>,
     prep_time_min |-> 15, cook_time_min |-> 30,
     produces_leftovers |-> TRUE, leftovers_replace_meal |-> Some("lunch"),
     yields_prep_item |-> <<"stock">>, servings_per_recipe |-> 4,
     ingredients |-> <<Ingredient("beef", 1, "kg", "meat"),
                       Ingredient("Tomato", 4, "jar", "pantry"),
                       Ingredient("water", 2, "cups", "pantry")>>]

Stew ==
    [id |-> "stew", name |-> "Stew", meals |-> <<"dinner">>,
     prep_time_min |-> 11, cook_time_min |-> 20,
     produces_leftovers |-> TRUE, leftovers_replace_meal |-> Some("dinner"),
     yields_prep_item |-> <<"stock", "beans">>, servings_per_recipe |-> 0,
     ingredients |-> <<Ingredient("tomato", 400, "g", "produce"),
                       Ingredient("butter", 1, "tbsp", "dairy")>>]

Fruit ==
    [id |-> "fruit", name |-> "Fruit", meals |-> <<"snack">>,
     prep_time_min |-> 2, cook_time_min |-> 0,
     produces_leftovers |-> TRUE, leftovers_replace_meal |-> Some("brunch"),
     yields_prep_item |-> <<>>, servings_per_recipe |-> 1,
     ingredients |-> <<Ingredient("apple", 1, "", "produce"),
                       Ingredient("apple", 1, "kg", "produce")>>]

Catalogs ==
    { <<>>,
      <<Roast>>,
      <<Toast, Pasta, Roast, Fruit>>,
      <<Pasta, Stew, Roast, Toast, Fruit>> }

RecipeIds == {"toast", "pasta", "roast", "stew", "fruit"}

WeekStarts == {28}

\* no allowance at all, and one that allows Sunday, Monday and Friday,
\* refuses Tuesday and Wednesday and leaves Thursday and Saturday out
AllowChoices ==
    { EmptyMap,
      [d \in {"Sunday", "Monday", "Tuesday", "Wednesday", "Friday"} |->
          d \in {"Sunday", "Monday", "Friday"}] }

SkipChoices ==
    { EmptyMap,
      [d \in {"Tuesday"} |-> <<"snack">>],
      [d \in {"Monday", "Thursday"} |->
          IF d = "Monday" THEN <<"Lunch", "Dinner">> ELSE <<"breakfast">>] }

\* week keys around the current week: next week, this week, 6, 7 and 14
\* days back, one week beyond the largest window, and a malformed key
GatherKeys(ws) ==
    { isoformat(ws + 7), isoformat(ws), isoformat(ws - 6), isoformat(ws - 7),
      isoformat(ws - 14), isoformat(ws - 7 * (MaxWindow + 1)), MalformedWeek }

\* the week keys of the histories a whole plan is generated with
PlanKeys(ws) == { isoformat(ws - 14), MalformedWeek }

HistoryLists == { <<"toast", "pasta">>, <<"roast">> }

\* None, the empty history and the histories of at most n weeks among keys
Histories(keys, n) ==
    {None} \cup
    { Some(h) : h \in UNION { [K -> HistoryLists] :
                   K \in { S \in SUBSET keys : Cardinality(S) <= n } } }

Configs ==
    { [week_start_date |-> ws, variability_window_weeks |-> w,
       allow_high_effort_dinner |-> a, skip_meals |-> sk] :
        ws \in WeekStarts, w \in 0..MaxWindow, a \in AllowChoices,
        sk \in SkipChoices }

Seeds == {None} \cup { Some(n) : n \in 0..MaxSeed }

Init ==
    /\ recipes \in Catalogs
    /\ config \in Configs
    /\ history \in Histories(PlanKeys(config.week_start_date), MaxPlanWeeks)
    /\ seed \in Seeds
    /\ pc = "start"
    /\ rng = Random(None)
    /\ recent_recipes = {}
    /\ pending_leftovers = EmptyMap
    /\ day_index = 1
    /\ meal_index = 1
    /\ skip_meals = {}
    /\ leftover_meals = EmptyMap
    /\ plan_days = <<>>
    /\ clock = 0
    /\ returned = <<>>
    /\ plan_file = None
    /\ grocery_recipes = <<>>
    /\ grocery_data = [people |-> 2, pantry |-> <<>>]
    /\ grocery_items = None
    /\ store = None
    /\ recorded = None
    /\ cli_pc = "idle"
    /\ history_path = None
    /\ plan_md = None
    /\ written = <<>>
    /\ conv_pc = "idle"
    /\ max_retries = 0
    /\ retry_delay = 0
    /\ attempt = 0
    /\ delay = 0
    /\ requests = <<>>
    /\ sleeps = <<>>

-----------------------------------------------------------------------------
(* generate_plan *)

\* lines 89-94: the locals set up before the loop over the days
Begin ==
    /\ pc = "start"
    /\ rng' = Random(seed)
    /\ plan_days' = <<>>
    /\ recent_recipes' = gather_recent_history(history, config)
    /\ pending_leftovers' = EmptyMap
    /\ day_index' = 1
    /\ meal_index' = 1
    /\ skip_meals' = {}
    /\ leftover_meals' = EmptyMap
    /\ pc' = "day"
    /\ UNCHANGED <<inputs, groceries, history_store, command, converter, clock, returned>>

day_skip_meals_verbatim(cfg, day_name) ==
    IF day_name \in DOMAIN cfg.skip_meals
    THEN SeqToSet(cfg.skip_meals[day_name])
    ELSE {}

\* set(meal.lower() for meal in config.skip_meals.get(day_name, []))
day_skip_meals(cfg, day_name) ==
    IF day_name \in DOMAIN cfg.skip_meals
    THEN { lower(m) : m \in SeqToSet(cfg.skip_meals[day_name]) }
    ELSE {}

StartDay_keep_pending ==
    /\ pc = "day"
    /\ day_index <= Len(DAY_NAMES)
    /\ LET day_name == DAY_NAMES[day_index]
       IN  /\ plan_days' = Append(plan_days,
                                  PlanDay(day_name, day_date(config, day_index)))
           /\ skip_meals' = day_skip_meals(config, day_name)
           /\ leftover_meals' =
                 IF day_name \in DOMAIN pending_leftovers
                 THEN pending_leftovers[day_name]
                 ELSE EmptyMap
           /\ pending_leftovers' = pending_leftovers
    /\ meal_index' = 1
    /\ pc' = "meal"
    /\ UNCHANGED <<inputs, groceries, history_store, command, converter, rng, recent_recipes,
                   day_index, clock, returned>>

\* lines 96-102: a new day; its pending leftovers are popped
StartDay ==
    /\ pc = "day"
    /\ day_index <= Len(DAY_NAMES)
    /\ LET day_name == DAY_NAMES[day_index]
       IN  /\ plan_days' = Append(plan_days,
                                  PlanDay(day_name, day_date(config, day_index)))
           /\ skip_meals' = day_skip_meals(config, day_name)
           /\ leftover_meals' =
                 IF day_name \in DOMAIN pending_leftovers
                 THEN pending_leftovers[day_name]
                 ELSE EmptyMap
           /\ pending_leftovers' =
                 [d \in DOMAIN pending_leftovers \ {day_name} |->
                     pending_leftovers[d]]
    /\ meal_index' = 1
    /\ pc' = "meal"
    /\ UNCHANGED <<inputs, groceries, history_store, command, converter, rng, recent_recipes, day_index, clock, returned>>

\* plan_day.meals.append(entry) on the day being built
append_meal(days, entry) ==
    [days EXCEPT ![Len(days)].meals = Append(@, entry)]

\* the position after the current slot: next meal, or next day
NextSlot ==
    IF meal_index < Len(MEAL_TYPES)
    THEN /\ meal_index' = meal_index + 1
         /\ day_index' = day_index
         /\ pc' = "meal"
    ELSE /\ meal_index' = 1
         /\ day_index' = day_index + 1
         /\ pc' = "day"

FillLeftover_with_time ==
    /\ pc = "meal"
    /\ MEAL_TYPES[meal_index] \in DOMAIN leftover_meals
    /\ LET day_name == DAY_NAMES[day_index]
           meal == MEAL_TYPES[meal_index]
           leftover_recipe == leftover_meals[meal]
       IN  plan_days' = append_meal(plan_days,
               PlanMeal(day_name, day_date(config, day_index), meal,
                        None, Some(leftover_recipe.name),
                        Some(total_time_min(leftover_recipe)), TRUE,
                        Some(leftover_recipe.id), Some(leftover_recipe.name)))
    /\ NextSlot
    /\ UNCHANGED <<inputs, groceries, history_store, command, converter, rng, recent_recipes, pending_leftovers, skip_meals,
                   leftover_meals, clock, returned>>

\* lines 105-121: the slot is a leftover target of the previous day
FillLeftover ==
    /\ pc = "meal"
    /\ MEAL_TYPES[meal_index] \in DOMAIN leftover_meals
    /\ LET day_name == DAY_NAMES[day_index]
           meal == MEAL_TYPES[meal_index]
           leftover_recipe == leftover_meals[meal]
       IN  plan_days' = append_meal(plan_days,
               PlanMeal(day_name, day_date(config, day_index), meal,
                        None, Some(leftover_recipe.name), None, TRUE,
                        Some(leftover_recipe.id), Some(leftover_recipe.name)))
    /\ NextSlot
    /\ UNCHANGED <<inputs, groceries, history_store, command, converter, rng, recent_recipes, pending_leftovers, skip_meals,
                   leftover_meals, clock, returned>>

FillSkipped_no_entry ==
    /\ pc = "meal"
    /\ MEAL_TYPES[meal_index] \notin DOMAIN leftover_meals
    /\ MEAL_TYPES[meal_index] \in skip_meals
    /\ NextSlot
    /\ UNCHANGED <<inputs, groceries, history_store, command, converter, rng, recent_recipes, pending_leftovers, skip_meals,
                   leftover_meals, plan_days, clock, returned>>

\* lines 123-134: the slot is skipped by the configuration
FillSkipped ==
    /\ pc = "meal"
    /\ MEAL_TYPES[meal_index] \notin DOMAIN leftover_meals
    /\ MEAL_TYPES[meal_index] \in skip_meals
    /\ plan_days' = append_meal(plan_days,
           PlanMeal(DAY_NAMES[day_index], day_date(config, day_index),
                    MEAL_TYPES[meal_index], None, None, None, FALSE,
                    None, None))
    /\ NextSlot
    /\ UNCHANGED <<inputs, groceries, history_store, command, converter, rng, recent_recipes, pending_leftovers, skip_meals,
                   leftover_meals, clock, returned>>

has_following_day_but_last(index) == index + 1 < Len(DAY_NAMES)

\* day_index + 1 < len(DAY_NAMES), for the 1-based index
has_following_day(index) == index < Len(DAY_NAMES)

leaves_leftovers_unflagged(recipe, index) ==
    /\ recipe.leftovers_replace_meal # None
    /\ Get(recipe.leftovers_replace_meal) \in SeqToSet(MEAL_TYPES)
    /\ has_following_day(index)

\* lines 166-170: the selected recipe leaves leftovers for the next day
leaves_leftovers(recipe, index) ==
    /\ recipe.produces_leftovers
    /\ recipe.leftovers_replace_meal # None
    /\ Get(recipe.leftovers_replace_meal) \in SeqToSet(MEAL_TYPES)
    /\ has_following_day(index)

\* pending_leftovers.setdefault(next_day, {})[meal_to_replace] = recipe
set_pending(pending, next_day, meal_to_replace, recipe) ==
    LET old == IF next_day \in DOMAIN pending THEN pending[next_day]
               ELSE EmptyMap
        new == [m \in DOMAIN old \cup {meal_to_replace} |->
                   IF m = meal_to_replace THEN recipe ELSE old[m]]
    IN  [d \in DOMAIN pending \cup {next_day} |->
            IF d = next_day THEN new ELSE pending[d]]

\* lines 136-173: filter the candidates, choose, and record the slot
ChooseSlot ==
    /\ pc = "meal"
    /\ MEAL_TYPES[meal_index] \notin DOMAIN leftover_meals
    /\ MEAL_TYPES[meal_index] \notin skip_meals
    /\ LET day_name == DAY_NAMES[day_index]
           meal == MEAL_TYPES[meal_index]
           date == day_date(config, day_index)
           candidates == slot_candidates(recipes, config, recent_recipes,
                                         day_name, meal)
       IN  \E out \in choose_recipe(candidates, rng) :
             IF out.raised
             THEN /\ pc' = "raised"
                  /\ UNCHANGED <<rng, pending_leftovers, day_index,
                                 meal_index, plan_days>>
             ELSE IF out.recipe = None
             THEN /\ plan_days' = append_meal(plan_days,
                         PlanMeal(day_name, date, meal, None, None, None,
                                  FALSE, None, None))
                  /\ rng' = out.rng
                  /\ UNCHANGED pending_leftovers
                  /\ NextSlot
             ELSE LET recipe == Get(out.recipe)
                  IN  /\ plan_days' = append_meal(plan_days,
                             PlanMeal(day_name, date, meal, Some(recipe.id),
                                      Some(recipe.name),
                                      Some(total_time_min(recipe)), FALSE,
                                      None, None))
                      /\ rng' = out.rng
                      /\ pending_leftovers' =
                            IF leaves_leftovers(recipe, day_index)
                            THEN set_pending(pending_leftovers,
                                     DAY_NAMES[day_index + 1],
                                     Get(recipe.leftovers_replace_meal),
                                     recipe)
                            ELSE pending_leftovers
                      /\ NextSlot
    /\ UNCHANGED <<inputs, groceries, history_store, command, converter, recent_recipes, skip_meals, leftover_meals, clock,
                   returned>>

-----------------------------------------------------------------------------
(* generate_plan: the returned dictionary *)

\* Python's order of the recipe ids, as used by sorted(recent_recipes)
StringOrder == <<"fruit", "pasta", "roast", "stew", "toast">>

\* sorted(ids)
sorted(ids) ==
    LET Member(x) == x \in ids
    IN  SelectSeq(StringOrder, Member)

RECURSIVE recipe_lookup(_, _)
\* {recipe.id: recipe for recipe in recipes}.get(id): the last one wins
recipe_lookup(rs, id) ==
    IF rs = <<>> THEN None
    ELSE IF rs[Len(rs)].id = id THEN Some(rs[Len(rs)])
         ELSE recipe_lookup(SubSeq(rs, 1, Len(rs) - 1), id)

RECURSIVE add_yields_once(_, _, _)
add_yields_once(yield_map, items, name) ==
    IF items = <<>> THEN yield_map
    ELSE LET prep_item == Head(items)
             old == IF prep_item \in DOMAIN yield_map
                    THEN yield_map[prep_item] ELSE <<>>
             new == [p \in DOMAIN yield_map \cup {prep_item} |->
                        IF p = prep_item /\ name \notin SeqToSet(old)
                        THEN Append(old, name)
                        ELSE IF p = prep_item THEN old ELSE yield_map[p]]
         IN  add_yields_once(new, Tail(items), name)

RECURSIVE add_yields(_, _, _)
\* for prep_item in items: yield_map[prep_item].append(name)
add_yields(yield_map, items, name) ==
    IF items = <<>> THEN yield_map
    ELSE LET prep_item == Head(items)
             old == IF prep_item \in DOMAIN yield_map
                    THEN yield_map[prep_item] ELSE <<>>
             new == [p \in DOMAIN yield_map \cup {prep_item} |->
                        IF p = prep_item THEN Append(old, name)
                        ELSE yield_map[p]]
         IN  add_yields(new, Tail(items), name)

RECURSIVE FlattenMeals(_)
\* the meals of all days, in day and slot order
FlattenMeals(days) ==
    IF days = <<>> THEN <<>>
    ELSE Head(days).meals \o FlattenMeals(Tail(days))

RECURSIVE summary_loop(_, _, _)
summary_loop(meals, rs, yield_map) ==
    IF meals = <<>> THEN yield_map
    ELSE LET recipe_id == Head(meals).recipe_id
             recipe == IF recipe_id = None THEN None
                       ELSE recipe_lookup(rs, Get(recipe_id))
         IN  IF recipe = None
             THEN summary_loop(Tail(meals), rs, yield_map)
             ELSE summary_loop(Tail(meals), rs,
                      add_yields(yield_map, Get(recipe).yields_prep_item,
                                 Get(recipe).name))

\* _build_summary
build_summary(days, rs) ==
    [yielded_prep_items |-> summary_loop(FlattenMeals(days), rs, EmptyMap)]

\* the dictionary of one PlanMeal, lines 184-192
meal_dict(meal) ==
    [meal_type |-> meal.meal_type, recipe_id |-> meal.recipe_id,
     recipe_name |-> meal.recipe_name,
     total_time_min |-> meal.total_time_min,
     is_leftover |-> meal.is_leftover,
     leftover_source_id |-> meal.leftover_source_id,
     leftover_source_name |-> meal.leftover_source_name]

\* the dictionary of one PlanDay, lines 180-195
day_dict(day) ==
    [day_name |-> day.day_name, date |-> isoformat(day.date),
     meals |-> [i \in 1..Len(day.meals) |-> meal_dict(day.meals[i])]]

\* lines 175-206
plan_dict(days, cfg, sd, forbidden, rs, now) ==
    LET dicts == [i \in 1..Len(days) |-> day_dict(days[i])]
    IN  [week_start_date |-> isoformat(cfg.week_start_date),
         generated_at |-> now,
         seed |-> sd,
         days |-> dicts,
         metadata |-> [people |-> people,
                       variability_window_weeks |->
                           cfg.variability_window_weeks,
                       recent_recipes |-> sorted(forbidden)],
         summary |-> build_summary(dicts, rs)]

\* lines 175-206: the loop is over; build and return the dictionary
Assemble ==
    /\ pc = "day"
    /\ day_index > Len(DAY_NAMES)
    /\ returned' = Append(returned,
                          plan_dict(plan_days, config, seed, recent_recipes,
                                    recipes, clock))
    /\ pc' = "done"
    /\ UNCHANGED <<inputs, groceries, history_store, command, converter, locals, clock>>

\* time passes between invocations
Tick ==
    /\ pc = "done"
    /\ clock < MaxClock
    /\ clock' = clock + 1
    /\ UNCHANGED <<inputs, groceries, history_store, command, converter, locals, pc, returned>>

\* generate_plan is called again with the same arguments
Reinvoke ==
    /\ pc = "done"
    /\ Len(returned) < MaxInvocations
    /\ pc' = "start"
    /\ UNCHANGED <<inputs, groceries, history_store, command, converter, locals, clock, returned>>

Next ==
    \/ Begin
    \/ StartDay
    \/ FillLeftover
    \/ FillSkipped
    \/ ChooseSlot
    \/ Assemble

Spec == Init /\ [][Next]_vars

\* repeated invocations with an explicit seed, the clock running; the
\* history is absent or holds the week two weeks back
InitRepeat ==
    /\ Init
    /\ seed # None
    /\ history # None =>
          DOMAIN Get(history) = {isoformat(config.week_start_date - 14)}

NextRepeat == Next \/ Tick \/ Reinvoke

SpecRepeat == InitRepeat /\ [][NextRepeat]_vars

\* recency computed alone, over histories on both sides of the window
InitGather ==
    /\ recipes = <<>>
    /\ config \in { c \in Configs : c.allow_high_effort_dinner = EmptyMap
                                    /\ c.skip_meals = EmptyMap }
    /\ history \in Histories(GatherKeys(config.week_start_date),
                            MaxHistoryEntries)
    /\ seed = None
    /\ pc = "start"
    /\ rng = Random(None)
    /\ recent_recipes = {}
    /\ pending_leftovers = EmptyMap
    /\ day_index = 1
    /\ meal_index = 1
    /\ skip_meals = {}
    /\ leftover_meals = EmptyMap
    /\ plan_days = <<>>
    /\ clock = 0
    /\ returned = <<>>
    /\ plan_file = None
    /\ grocery_recipes = <<>>
    /\ grocery_data = [people |-> 2, pantry |-> <<>>]
    /\ grocery_items = None
    /\ store = None
    /\ recorded = None
    /\ cli_pc = "idle"
    /\ history_path = None
    /\ plan_md = None
    /\ written = <<>>
    /\ conv_pc = "idle"
    /\ max_retries = 0
    /\ retry_delay = 0
    /\ attempt = 0
    /\ delay = 0
    /\ requests = <<>>
    /\ sleeps = <<>>

SpecGather == InitGather /\ [][Begin]_vars

-----------------------------------------------------------------------------
(* cli.py and io.py: the plan as a JSON file.  A JSON document is modelled  *)
(* by its tree; an Optional value is written as null or as the value.       *)

\* json.dumps of an Optional value
json_value(opt) ==
    IF opt = None THEN [json |-> "null"]
    ELSE [json |-> "value", value |-> Get(opt)]

json_meal_with_source(meal) ==
    [meal_type |-> meal.meal_type,
     recipe_id |-> IF meal.recipe_id = None
                   THEN json_value(meal.leftover_source_id)
                   ELSE json_value(meal.recipe_id),
     recipe_name |-> json_value(meal.recipe_name),
     total_time_min |-> json_value(meal.total_time_min),
     is_leftover |-> meal.is_leftover,
     leftover_source_id |-> json_value(meal.leftover_source_id),
     leftover_source_name |-> json_value(meal.leftover_source_name)]

\* json.dumps of one meal dictionary
json_meal(meal) ==
    [meal_type |-> meal.meal_type,
     recipe_id |-> json_value(meal.recipe_id),
     recipe_name |-> json_value(meal.recipe_name),
     total_time_min |-> json_value(meal.total_time_min),
     is_leftover |-> meal.is_leftover,
     leftover_source_id |-> json_value(meal.leftover_source_id),
     leftover_source_name |-> json_value(meal.leftover_source_name)]

\* json.dumps of one day dictionary
json_day(day) ==
    [day_name |-> day.day_name, date |-> day.date,
     meals |-> [i \in 1..Len(day.meals) |-> json_meal(day.meals[i])]]

\* json.dumps(data, indent=2, ensure_ascii=False) of a plan dictionary
json_dumps(plan) ==
    [week_start_date |-> plan.week_start_date,
     generated_at |-> plan.generated_at,
     seed |-> json_value(plan.seed),
     days |-> [i \in 1..Len(plan.days) |-> json_day(plan.days[i])],
     metadata |-> plan.metadata,
     summary |-> plan.summary]

\* json.load of a value that may be null
python_value(j) == IF j.json = "null" THEN None ELSE Some(j.value)

\* json.load of one meal object
loaded_meal(j) ==
    [meal_type |-> j.meal_type,
     recipe_id |-> python_value(j.recipe_id),
     recipe_name |-> python_value(j.recipe_name),
     total_time_min |-> python_value(j.total_time_min),
     is_leftover |-> j.is_leftover,
     leftover_source_id |-> python_value(j.leftover_source_id),
     leftover_source_name |-> python_value(j.leftover_source_name)]

\* json.load of one day object
loaded_day(j) ==
    [day_name |-> j.day_name, date |-> j.date,
     meals |-> [i \in 1..Len(j.meals) |-> loaded_meal(j.meals[i])]]

\* _read_json: json.load of a plan document
read_json(doc) ==
    [week_start_date |-> doc.week_start_date,
     generated_at |-> doc.generated_at,
     seed |-> python_value(doc.seed),
     days |-> [i \in 1..Len(doc.days) |-> loaded_day(doc.days[i])],
     metadata |-> doc.metadata,
     summary |-> doc.summary]

\* load_plan_json
load_plan_json(file) == read_json(Get(file))

\* _handle_plan, line 84: _write_json_file(out_json, plan)
WritePlan ==
    /\ pc = "done"
    /\ plan_file = None
    /\ plan_file' = Some(json_dumps(returned[Len(returned)]))
    /\ UNCHANGED <<inputs, locals, pc, clock, returned, grocery_recipes,
                   grocery_data, grocery_items, history_store, command,
                   converter>>

-----------------------------------------------------------------------------
(* groceries.py.  Quantities are counted in quarters of a unit, so that the *)
(* multipliers people / servings_per_recipe of the catalogs are integers;   *)
(* the servings are powers of two and the float arithmetic is exact.        *)

RECURSIVE dedupe(_)
\* list(dict.fromkeys(items))
dedupe(items) ==
    IF items = <<>> THEN <<>>
    ELSE LET rest == dedupe(SubSeq(items, 1, Len(items) - 1))
             last == items[Len(items)]
         IN  IF last \in SeqToSet(rest) THEN rest ELSE Append(rest, last)

from_dict_verbatim(data) == [pantry |-> data.pantry]

\* WeekConfig.from_dict, the fields the grocery aggregator reads
from_dict(data) ==
    [pantry |-> [i \in 1..Len(data.pantry) |-> lower(data.pantry[i])]]

\* load_config: the pantry without duplicates, then WeekConfig.from_dict
load_config(data) ==
    from_dict([data EXCEPT !.pantry = dedupe(data.pantry)])

\* str.title() on the meal types
title(s) ==
    CASE s = "breakfast" -> "Breakfast"
      [] s = "lunch" -> "Lunch"
      [] s = "dinner" -> "Dinner"
      [] s = "snack" -> "Snack"
      [] OTHER -> s

\* _meal_description: the day name and the title-cased meal type
meal_description(day, meal) == <<day.day_name, title(meal.meal_type)>>

\* GroceryItem.__init__
GroceryItem(item, quantity, unit, category) ==
    [item |-> item, quantity |-> quantity, unit |-> unit,
     category |-> category, sources |-> <<>>]

\* line 54: config.people / servings_per_recipe, or 1.0; in quarters
multiplier(recipe) ==
    IF recipe.servings_per_recipe # 0
    THEN (4 * people) \div recipe.servings_per_recipe
    ELSE 4

item_key_verbatim(ingredient) == ingredient.item

\* line 57: item_key = ingredient.item.lower()
item_key(ingredient) == lower(ingredient.item)

\* the position of the key in the dictionary, 0 when it is absent
key_index(aggregated, key) ==
    IF \E i \in 1..Len(aggregated) : aggregated[i].key = key
    THEN CHOOSE i \in 1..Len(aggregated) : aggregated[i].key = key
    ELSE 0

meal_recipe_id_or_source(meal) ==
    IF meal.recipe_id = None THEN meal.leftover_source_id ELSE meal.recipe_id

\* line 47: recipe_id = meal.get("recipe_id")
meal_recipe_id(meal) == meal.recipe_id

\* lines 47-59: the passes through line 60 made for one slot, in ingredient
\* order: none for a slot without recipe_id or with an id the catalog lacks,
\* else one for each ingredient of the recipe that is not in the pantry
slot_passes(day, meal, rs, pantry) ==
    LET recipe_id == meal_recipe_id(meal)
        recipe == IF recipe_id = None THEN None
                  ELSE recipe_lookup(rs, Get(recipe_id))
        Bought(ingredient) == item_key(ingredient) \notin pantry
    IN  IF recipe = None THEN <<>>
        ELSE LET kept == SelectSeq(Get(recipe).ingredients, Bought)
             IN  [i \in 1..Len(kept) |->
                    [ingredient |-> kept[i],
                     key |-> <<item_key(kept[i]), kept[i].unit>>,
                     qty |-> kept[i].qty * multiplier(Get(recipe)),
                     source |-> meal_description(day, meal)]]

RECURSIVE day_passes(_, _, _, _)
\* line 46: the loop over the meals of one day
day_passes(day, meals, rs, pantry) ==
    IF meals = <<>> THEN <<>>
    ELSE slot_passes(day, Head(meals), rs, pantry) \o
         day_passes(day, Tail(meals), rs, pantry)

RECURSIVE plan_passes(_, _, _)
\* line 45: the loop over the days
plan_passes(days, rs, pantry) ==
    IF days = <<>> THEN <<>>
    ELSE day_passes(Head(days), Head(days).meals, rs, pantry) \o
         plan_passes(Tail(days), rs, pantry)

RECURSIVE aggregate(_, _)
\* lines 62-70, pass after pass; the dictionary is the sequence of its
\* (key, value) pairs in insertion order
aggregate(passes, aggregated) ==
    IF passes = <<>> THEN aggregated
    ELSE LET pass == Head(passes)
             at == key_index(aggregated, pass.key)
         IN  IF at = 0
             THEN aggregate(Tail(passes),
                      Append(aggregated,
                          [key |-> pass.key,
                           value |-> [GroceryItem(pass.ingredient.item, 0,
                                          pass.ingredient.unit,
                                          pass.ingredient.category)
                                      EXCEPT !.quantity = @ + pass.qty,
                                             !.sources = Append(@, pass.source)]]))
             ELSE aggregate(Tail(passes),
                      [aggregated EXCEPT
                          ![at].value.quantity = @ + pass.qty,
                          ![at].value.sources = Append(@, pass.source)])

\* Python's order (by code point) of the category and item names
CodePointOrder ==
    <<"Butter", "Tomato", "apple", "bakery", "beef", "bread", "butter",
      "dairy", "grains", "meat", "pantry", "pasta", "produce", "tomato",
      "water">>

\* a < b on strings
str_lt(a, b) ==
    \E i, j \in 1..Len(CodePointOrder) :
        CodePointOrder[i] = a /\ CodePointOrder[j] = b /\ i < j

\* a <= b on pairs of strings
tuple_le(a, b) == str_lt(a[1], b[1]) \/ (a[1] = b[1] /\ ~str_lt(b[2], a[2]))

sort_key_item_first(item) == <<item.item, item.category>>

\* line 73: key=lambda item: (item.category, item.item)
sort_key(item) == <<item.category, item.item>>

RECURSIVE sorted_items(_)
\* sorted(values, key=...): a stable sort, here by insertion
sorted_items(values) ==
    IF values = <<>> THEN <<>>
    ELSE LET rest == sorted_items(SubSeq(values, 1, Len(values) - 1))
             last == values[Len(values)]
             NotAfter(x) == tuple_le(sort_key(x), sort_key(last))
             After(x) == ~NotAfter(x)
         IN  SelectSeq(rest, NotAfter) \o <<last>> \o SelectSeq(rest, After)

\* collect_grocery_items
collect_grocery_items(plan, rs, cfg) ==
    LET aggregated ==
            aggregate(plan_passes(plan.days, rs, SeqToSet(cfg.pantry)), <<>>)
    IN  sorted_items([i \in 1..Len(aggregated) |-> aggregated[i].value])

\* the catalogs the groceries command may load for a plan generated from rs:
\* the same catalog, or one from which a recipe has since been removed
GroceryCatalogs(rs) == { rs, SelectSeq2(rs, {"pasta"}) }

PantryChoices == { <<>>, <<"Water">>, <<"water", "TOMATO", "water">> }

PeopleChoices == {2, 4}

\* the configuration files of the groceries command
GroceryData ==
    { [people |-> n, pantry |-> p] : n \in PeopleChoices, p \in PantryChoices }

\* _handle_groceries, lines 100-104
HandleGroceries ==
    /\ plan_file # None
    /\ grocery_items = None
    /\ \E rs \in GroceryCatalogs(recipes), data \in GroceryData :
          /\ grocery_recipes' = rs
          /\ grocery_data' = data
          /\ grocery_items' = Some(collect_grocery_items(
                                  load_plan_json(plan_file), rs,
                                  load_config(data)))
    /\ UNCHANGED <<inputs, locals, pc, clock, returned, plan_file,
                   history_store, command, converter>>

\* one plan is generated without seed or history, written, and aggregated
InitGroceries ==
    /\ Init
    /\ seed = None
    /\ history = None
    /\ config.variability_window_weeks = 0

NextGroceries == Next \/ WritePlan \/ HandleGroceries

SpecGroceries == InitGroceries /\ [][NextGroceries]_vars

-----------------------------------------------------------------------------
(* history.py: the history file.  The file holds {"plans": {week: ids}} or, *)
(* in the older format, a list of {"week_start_date", "recipes"} entries.   *)

RECURSIVE load_entries_first_wins(_)
load_entries_first_wins(entries) ==
    IF entries = <<>> THEN EmptyMap
    ELSE LET result == load_entries_first_wins(Tail(entries))
             entry == Head(entries)
         IN  [w \in DOMAIN result \cup {entry.week_start_date} |->
                IF w = entry.week_start_date THEN entry.recipes
                ELSE result[w]]

RECURSIVE load_entries(_)
\* lines 29-37: the entries of a list, later entries replacing earlier ones
load_entries(entries) ==
    IF entries = <<>> THEN EmptyMap
    ELSE LET result == load_entries(SubSeq(entries, 1, Len(entries) - 1))
             entry == entries[Len(entries)]
         IN  [w \in DOMAIN result \cup {entry.week_start_date} |->
                IF w = entry.week_start_date THEN entry.recipes
                ELSE result[w]]

\* HistoryStore.load
load(file) ==
    IF file = None THEN None
    ELSE IF Get(file).format = "dict" THEN Some(Get(file).plans)
         ELSE Some(load_entries(Get(file).plans))

\* a < b on week keys: ISO dates of one width are ordered as their days,
\* and digits come before letters
week_lt(a, b) == (a.iso /\ ~b.iso) \/ (a.iso /\ b.iso /\ a.day < b.day)

RECURSIVE sorted_keys(_)
\* sorted(history.keys())
sorted_keys(keys) ==
    IF keys = {} THEN <<>>
    ELSE LET least == CHOOSE k \in keys :
                          \A j \in keys \ {k} : week_lt(k, j)
         IN  <<least>> \o sorted_keys(keys \ {least})

weeks_to_pop_from_end(sorted_weeks, weeks_to_keep) ==
    SubSeq(sorted_weeks, weeks_to_keep + 1, Len(sorted_weeks))

\* sorted_weeks[:-weeks_to_keep]
weeks_to_pop(sorted_weeks, weeks_to_keep) ==
    SubSeq(sorted_weeks, 1, Len(sorted_weeks) - weeks_to_keep)

\* lines 43-48: the recipe ids of the plan's slots, in day and slot order
plan_recipe_ids(plan) ==
    LET meals == FlattenMeals(plan.days)
        Filled(meal) == meal.recipe_id # None
        filled == SelectSeq(meals, Filled)
    IN  [i \in 1..Len(filled) |-> Get(filled[i].recipe_id)]

\* HistoryStore.record_plan: the new content of the file
record_plan(file, plan, cfg) ==
    LET loaded == IF load(file) = None THEN EmptyMap ELSE Get(load(file))
        week_start == plan.week_start_date
        history1 == [w \in DOMAIN loaded \cup {week_start} |->
                       IF w = week_start THEN plan_recipe_ids(plan)
                       ELSE loaded[w]]
        weeks_to_keep == cfg.variability_window_weeks
        sorted_weeks == sorted_keys(DOMAIN history1)
        popped == IF weeks_to_keep > 0 /\ Len(sorted_weeks) > weeks_to_keep
                  THEN SeqToSet(weeks_to_pop(sorted_weeks, weeks_to_keep))
                  ELSE {}
    IN  Some([format |-> "dict",
              plans |-> [w \in DOMAIN history1 \ popped |-> history1[w]]])

\* the weeks of the history files and of the plans recorded
StoredWeeks == { isoformat(7 * i) : i \in 1..MaxStoredWeeks }

\* the history files: none, a file in either format over the stored weeks
\* and a key that is not a date
Stores ==
    {None} \cup
    { Some([format |-> "dict", plans |-> [w \in K |-> <<"toast">>]]) :
        K \in SUBSET (StoredWeeks \cup {MalformedWeek}) } \cup
    { Some([format |-> "list",
            plans |-> <<[week_start_date |-> isoformat(14),
                         recipes |-> <<"fruit">>],
                        [week_start_date |-> isoformat(7),
                         recipes |-> <<"stew">>],
                        [week_start_date |-> isoformat(14),
                         recipes |-> <<"toast">>]>>]) }

\* plans of two days with selected, empty and leftover slots
RecordedPlans ==
    { [week_start_date |-> w,
       days |-> <<[day_name |-> "Sunday",
                   meals |-> <<[recipe_id |-> None], [recipe_id |-> Some(a)]>>],
                  [day_name |-> "Monday",
                   meals |-> <<[recipe_id |-> Some("roast")],
                               [recipe_id |-> None]>>]>>] :
        w \in StoredWeeks, a \in {"pasta", "roast"} }

\* the configurations record_plan is called with
RecordConfigs ==
    { c \in Configs : c.allow_high_effort_dinner = EmptyMap
                      /\ c.skip_meals = EmptyMap }

\* history_store.record_plan(plan, config)
RecordPlan ==
    /\ \E plan \in RecordedPlans, cfg \in RecordConfigs :
          /\ store' = record_plan(store, plan, cfg)
          /\ recorded' =
                Some([week_start |-> plan.week_start_date,
                      weeks_to_keep |-> cfg.variability_window_weeks,
                      history |-> IF load(store) = None THEN EmptyMap
                                  ELSE Get(load(store)),
                      plan |-> plan])
    /\ UNCHANGED <<inputs, locals, pc, clock, returned, groceries, command,
                   converter>>

\* record_plan called again and again on a history file
InitRecord ==
    /\ recipes = <<>>
    /\ config \in RecordConfigs
    /\ config.variability_window_weeks = 0
    /\ history = None
    /\ seed = None
    /\ pc = "start"
    /\ rng = Random(None)
    /\ recent_recipes = {}
    /\ pending_leftovers = EmptyMap
    /\ day_index = 1
    /\ meal_index = 1
    /\ skip_meals = {}
    /\ leftover_meals = EmptyMap
    /\ plan_days = <<>>
    /\ clock = 0
    /\ returned = <<>>
    /\ plan_file = None
    /\ grocery_recipes = <<>>
    /\ grocery_data = [people |-> 2, pantry |-> <<>>]
    /\ grocery_items = None
    /\ store \in Stores
    /\ recorded = None
    /\ cli_pc = "idle"
    /\ history_path = None
    /\ plan_md = None
    /\ written = <<>>
    /\ conv_pc = "idle"
    /\ max_retries = 0
    /\ retry_delay = 0
    /\ attempt = 0
    /\ delay = 0
    /\ requests = <<>>
    /\ sleeps = <<>>

SpecRecord == InitRecord /\ [][RecordPlan]_vars

-----------------------------------------------------------------------------
(* The plan command: cli.py _handle_plan and markdown.py.  A text file is   *)
(* the sequence of its lines, each line a record of the parts the format    *)
(* string puts together.                                                    *)

\* the number of plan commands of one run
MaxCommands == 2

\* code-point order of the recipe names and prep items of the catalogs
TextOrder == <<"Fruit", "Pasta", "Roast", "Stew", "Toast", "beans", "stock">>

\* sorted(set(items)) of strings
sorted_text(items) ==
    LET Member(x) == x \in items
    IN  SelectSeq(TextOrder, Member)

BlankLine == [line |-> "blank"]

\* markdown.py lines 15-27: the line of one meal
meal_line(meal) ==
    LET meal_type == title(meal.meal_type)
        total_time == meal.total_time_min
    IN  IF meal.is_leftover
        THEN LET leftover_name == IF meal.leftover_source_name # None
                                  THEN meal.leftover_source_name
                                  ELSE meal.recipe_name
             IN  [line |-> "leftover", meal_type |-> meal_type,
                  name |-> leftover_name]
        ELSE LET recipe == IF meal.recipe_name # None
                           THEN Get(meal.recipe_name) ELSE "(skipped)"
             IN  [line |-> "meal", meal_type |-> meal_type,
                  recipe |-> recipe, minutes |-> total_time]

\* markdown.py lines 11-28: the heading of a day, its meals, a blank line
day_lines(day) ==
    <<[line |-> "day", day_name |-> day.day_name, date |-> day.date]>>
    \o [i \in 1..Len(day.meals) |-> meal_line(day.meals[i])]
    \o <<BlankLine>>

RECURSIVE days_lines(_)
days_lines(days) ==
    IF days = <<>> THEN <<>>
    ELSE day_lines(Head(days)) \o days_lines(Tail(days))

\* markdown.py lines 30-36: the prep items in sorted order, each with its
\* sources sorted and without duplicates
summary_lines(prep_items) ==
    IF DOMAIN prep_items = {} THEN <<>>
    ELSE LET keys == sorted_text(DOMAIN prep_items)
         IN  <<[line |-> "summary"]>>
             \o [i \in 1..Len(keys) |->
                    [line |-> "prep", prep_item |-> keys[i],
                     sources |-> sorted_text(SeqToSet(prep_items[keys[i]]))]]
             \o <<BlankLine>>

\* str.rstrip() of the joined lines: the blank lines at the end go
RECURSIVE rstrip(_)
rstrip(lines) ==
    IF lines # <<>> /\ lines[Len(lines)] = BlankLine
    THEN rstrip(SubSeq(lines, 1, Len(lines) - 1))
    ELSE lines

\* markdown.py lines 7-38
build_plan_markdown(plan) ==
    rstrip(<<[line |-> "title", week_start |-> plan.week_start_date],
             BlankLine>>
           \o days_lines(plan.days)
           \o summary_lines(plan.summary.yielded_prep_items))

\* history files a run starts from: none, the week before the first
\* command, a key that is no date, and the older list format
CommandStores ==
    {None} \cup
    { Some([format |-> "dict", plans |-> [w \in {k} |-> <<"toast">>]]) :
        k \in {isoformat(21), MalformedWeek} } \cup
    { Some([format |-> "list",
            plans |-> <<[week_start_date |-> isoformat(21),
                         recipes |-> <<"fruit">>]>>]) }

HistoryPaths == {None, Some("history.json")}

\* the configurations of a run: every window, with and without a skip
CommandConfigs ==
    { c \in Configs : /\ c.allow_high_effort_dinner = EmptyMap
                      /\ Cardinality(DOMAIN c.skip_meals) <= 1 }

\* the command line is parsed; _handle_plan is about to run
InitCommand ==
    /\ recipes \in Catalogs \ {<<>>}
    /\ config \in CommandConfigs
    /\ history = None
    /\ seed \in { Some(n) : n \in 0..MaxSeed }
    /\ pc = "idle"
    /\ rng = Random(None)
    /\ recent_recipes = {}
    /\ pending_leftovers = EmptyMap
    /\ day_index = 1
    /\ meal_index = 1
    /\ skip_meals = {}
    /\ leftover_meals = EmptyMap
    /\ plan_days = <<>>
    /\ clock = 0
    /\ returned = <<>>
    /\ plan_file = None
    /\ grocery_recipes = <<>>
    /\ grocery_data = [people |-> 2, pantry |-> <<>>]
    /\ grocery_items = None
    /\ store \in CommandStores
    /\ recorded = None
    /\ cli_pc = "load"
    /\ history_path \in HistoryPaths
    /\ plan_md = None
    /\ written = <<>>
    /\ conv_pc = "idle"
    /\ max_retries = 0
    /\ retry_delay = 0
    /\ attempt = 0
    /\ delay = 0
    /\ requests = <<>>
    /\ sleeps = <<>>

\* a step of the command raises: the exception leaves _handle_plan, and
\* nothing the command did before is undone
Fails ==
    /\ cli_pc' = "failed"
    /\ UNCHANGED <<inputs, locals, pc, clock, returned, groceries,
                   history_store, history_path, plan_md, written, converter>>

PlanLoad_always ==
    /\ cli_pc = "load"
    /\ \/ /\ history' = load(store)
          /\ pc' = "start"
          /\ cli_pc' = "generate"
          /\ UNCHANGED <<recipes, config, seed, locals, clock, returned,
                         groceries, history_store, history_path, plan_md,
                         written, converter>>
       \/ Fails

\* cli.py lines 70-81: load the inputs, the history only when a path was
\* given, and call generate_plan; a file that cannot be read raises
PlanLoad ==
    /\ cli_pc = "load"
    /\ \/ /\ history' = IF history_path # None THEN load(store) ELSE None
          /\ pc' = "start"
          /\ cli_pc' = "generate"
          /\ UNCHANGED <<recipes, config, seed, locals, clock, returned,
                         groceries, history_store, history_path, plan_md,
                         written, converter>>
       \/ Fails

\* cli.py lines 82-84: generate_plan has returned; render the Markdown and
\* write the JSON file
PlanWriteJson ==
    /\ cli_pc = "generate"
    /\ pc = "done"
    /\ \/ /\ plan_file' = Some(json_dumps(returned[Len(returned)]))
          /\ written' = Append(written, "json")
          /\ cli_pc' = "write_md"
          /\ UNCHANGED <<inputs, locals, pc, clock, returned,
                         grocery_recipes, grocery_data, grocery_items,
                         history_store, history_path, plan_md, converter>>
       \/ Fails

\* cli.py lines 85-90: write the Markdown file; without a history store the
\* command returns 0
PlanWriteMarkdown ==
    /\ cli_pc = "write_md"
    /\ \/ /\ plan_md' = Some(build_plan_markdown(returned[Len(returned)]))
          /\ written' = Append(written, "md")
          /\ cli_pc' = IF history_path # None THEN "record" ELSE "returned"
          /\ UNCHANGED <<inputs, locals, pc, clock, returned, groceries,
                         history_store, history_path, converter>>
       \/ Fails

\* cli.py lines 87-90: record the plan in the history file and return 0
PlanRecord ==
    /\ cli_pc = "record"
    /\ \/ /\ store' = record_plan(store, returned[Len(returned)], config)
          /\ recorded' =
                Some([week_start |-> returned[Len(returned)].week_start_date,
                      weeks_to_keep |-> config.variability_window_weeks,
                      history |-> IF load(store) = None THEN EmptyMap
                                  ELSE Get(load(store)),
                      plan |-> returned[Len(returned)]])
          /\ written' = Append(written, "history")
          /\ cli_pc' = "returned"
          /\ UNCHANGED <<inputs, locals, pc, clock, returned, groceries,
                         history_path, plan_md, converter>>
       \/ Fails

\* the command is run again for the week after, with the same files
NextCommand ==
    /\ cli_pc = "returned"
    /\ Len(returned) < MaxCommands
    /\ config' = [config EXCEPT !.week_start_date = @ + 7]
    /\ history' = None
    /\ pc' = "idle"
    /\ cli_pc' = "load"
    /\ written' = <<>>
    /\ UNCHANGED <<recipes, seed, locals, clock, returned, groceries,
                   history_store, history_path, plan_md, converter>>

NextPlanCommand ==
    \/ PlanLoad
    \/ Next
    \/ PlanWriteJson
    \/ PlanWriteMarkdown
    \/ PlanRecord
    \/ NextCommand

SpecCommand == InitCommand /\ [][NextPlanCommand]_vars

-----------------------------------------------------------------------------
(* The recipe converter: scripts/convert_recipes.py _request_json.  Delays  *)
(* are whole seconds; requests and sleeps log what the loop has done.       *)

\* the largest --max-retries of a run
MaxRetries == 3

\* --max-retries is any int (default 3), lines 85-90
RetryCounts == (-1)..MaxRetries

\* --retry-delay is any float (default 2.0), lines 91-96
RetryDelays == {-1, 0, 1, 2}

\* what a request to the model gives: an exception, a response without
\* content, a response with content
Outcomes == {"error", "empty", "content"}

\* _request_json is about to be called with the parsed arguments
InitConvert ==
    /\ recipes = <<>>
    /\ config \in { c \in RecordConfigs : c.variability_window_weeks = 0 }
    /\ history = None
    /\ seed = None
    /\ pc = "idle"
    /\ rng = Random(None)
    /\ recent_recipes = {}
    /\ pending_leftovers = EmptyMap
    /\ day_index = 1
    /\ meal_index = 1
    /\ skip_meals = {}
    /\ leftover_meals = EmptyMap
    /\ plan_days = <<>>
    /\ clock = 0
    /\ returned = <<>>
    /\ plan_file = None
    /\ grocery_recipes = <<>>
    /\ grocery_data = [people |-> 2, pantry |-> <<>>]
    /\ grocery_items = None
    /\ store = None
    /\ recorded = None
    /\ cli_pc = "idle"
    /\ history_path = None
    /\ plan_md = None
    /\ written = <<>>
    /\ conv_pc = "start"
    /\ max_retries \in RetryCounts
    /\ retry_delay \in RetryDelays
    /\ attempt = 0
    /\ delay = 0
    /\ requests = <<>>
    /\ sleeps = <<>>

\* line 209: delay = args.retry_delay
EnterRequestJson ==
    /\ conv_pc = "start"
    /\ delay' = retry_delay
    /\ conv_pc' = "loop"
    /\ UNCHANGED <<inputs, locals, pc, clock, returned, groceries,
                   history_store, command, max_retries, retry_delay, attempt,
                   requests, sleeps>>

\* lines 210 and 248: the next attempt of range(1, max_retries + 1), or
\* RuntimeError once the range is over
NextAttempt ==
    /\ conv_pc = "loop"
    /\ IF attempt + 1 <= max_retries
       THEN /\ attempt' = attempt + 1
            /\ conv_pc' = "request"
       ELSE /\ conv_pc' = "exhausted"
            /\ UNCHANGED attempt
    /\ UNCHANGED <<inputs, locals, pc, clock, returned, groceries,
                   history_store, command, max_retries, retry_delay, delay,
                   requests, sleeps>>

\* lines 211-241: one request; content is returned, an empty response
\* raises ValueError inside the try block like a failed request
Request ==
    /\ conv_pc = "request"
    /\ \E outcome \in Outcomes :
          /\ requests' = Append(requests, outcome)
          /\ conv_pc' = IF outcome = "content" THEN "returned" ELSE "except"
    /\ UNCHANGED <<inputs, locals, pc, clock, returned, groceries,
                   history_store, command, max_retries, retry_delay, attempt,
                   delay, sleeps>>

HandleFailure_sleep_first ==
    /\ conv_pc = "except"
    /\ IF delay < 0
       THEN /\ conv_pc' = "sleep_raised"
            /\ UNCHANGED <<delay, sleeps>>
       ELSE /\ sleeps' = Append(sleeps, delay)
            /\ delay' = delay * 2
            /\ conv_pc' = IF attempt = max_retries THEN "raised" ELSE "loop"
    /\ UNCHANGED <<inputs, locals, pc, clock, returned, groceries,
                   history_store, command, max_retries, retry_delay, attempt,
                   requests>>

\* lines 242-247: the last attempt re-raises its failure; an earlier one
\* sleeps and doubles the delay.  time.sleep raises ValueError for a
\* negative length, and that exception leaves the function.
HandleFailure ==
    /\ conv_pc = "except"
    /\ IF attempt = max_retries
       THEN /\ conv_pc' = "raised"
            /\ UNCHANGED <<delay, sleeps>>
       ELSE IF delay < 0
       THEN /\ conv_pc' = "sleep_raised"
            /\ UNCHANGED <<delay, sleeps>>
       ELSE /\ sleeps' = Append(sleeps, delay)
            /\ delay' = delay * 2
            /\ conv_pc' = "loop"
    /\ UNCHANGED <<inputs, locals, pc, clock, returned, groceries,
                   history_store, command, max_retries, retry_delay, attempt,
                   requests>>

NextConvert ==
    \/ EnterRequestJson
    \/ NextAttempt
    \/ Request
    \/ HandleFailure

SpecConvert == InitConvert /\ [][NextConvert]_vars

\* the function runs on: a request returns or raises, a sleep ends
SpecConvertLive == SpecConvert /\ WF_vars(NextConvert)

-----------------------------------------------------------------------------
(* Vocabulary of the properties *)

Days == 1..7

Slots == 1..4

\* the plan returned by the latest invocation
LastPlan == returned[Len(returned)]

\* the entry of slot m of day d in the latest plan
Entry(d, m) == LastPlan.days[d].meals[m]

MealName(m) == <<"breakfast", "lunch", "dinner", "snack">>[m]

DayName(d) == <<"Sunday", "Monday", "Tuesday", "Wednesday", "Thursday",
                "Friday", "Saturday">>[d]

\* the (day, meal) pair is in the configured skip set
InSkipSet(d, m) ==
    /\ DayName(d) \in DOMAIN config.skip_meals
    /\ \E i \in 1..Len(config.skip_meals[DayName(d)]) :
          lower(config.skip_meals[DayName(d)][i]) = MealName(m)

\* the catalog recipe with the given id
CatalogRecipe(id) == CHOOSE r \in SeqToSet(recipes) : r.id = id

\* slot m2 of day d holds a selected recipe whose leftovers go to meal m
Targets(d, m2, m) ==
    /\ Entry(d, m2).recipe_id # None
    /\ LET r == CatalogRecipe(Get(Entry(d, m2).recipe_id))
       IN  r.produces_leftovers /\ r.leftovers_replace_meal = Some(MealName(m))

\* the entry is a leftover of the recipe selected in slot m2 of day d
LeftoverOf(e, d, m2) ==
    /\ e.is_leftover
    /\ e.recipe_id = None
    /\ e.leftover_source_id = Entry(d, m2).recipe_id
    /\ e.leftover_source_name = Entry(d, m2).recipe_name

\* the days built so far: those of the returned plan once it is returned
Built == IF pc = "done" THEN LastPlan.days ELSE plan_days

\* the day's allowance is present and true
AllowsHighEffort(d) ==
    /\ DayName(d) \in DOMAIN config.allow_high_effort_dinner
    /\ config.allow_high_effort_dinner[DayName(d)]

\* the recipes passing the slot-tag filter and, for dinner, the effort filter
BaseCandidates(d, m) ==
    { r \in SeqToSet(recipes) :
        /\ \E i \in 1..Len(r.meals) : r.meals[i] = MealName(m)
        /\ (m = 3 /\ ~AllowsHighEffort(d))
              => r.prep_time_min + r.cook_time_min <= 30 }

\* the recipe ids found in the history: in its dated entries only, or in all
HistoryIds(dated) ==
    IF history = None THEN {}
    ELSE { id \in RecipeIds :
             \E k \in DOMAIN Get(history) :
                /\ dated => k.iso
                /\ \E i \in 1..Len(Get(history)[k]) : Get(history)[k][i] = id }

-----------------------------------------------------------------------------
(* Properties *)

\* C1: the returned plan has the 7 days Sunday..Saturday in order, each with
\* the 4 entries breakfast, lunch, dinner, snack in order, whatever the seed
\* and whatever path each slot took.
Thm_C1_structure ==
    pc = "done" =>
        /\ [d \in 1..Len(LastPlan.days) |-> LastPlan.days[d].day_name]
             = <<"Sunday", "Monday", "Tuesday", "Wednesday", "Thursday",
                 "Friday", "Saturday">>
        /\ \A d \in 1..Len(LastPlan.days) :
             [m \in 1..Len(LastPlan.days[d].meals) |->
                 LastPlan.days[d].meals[m].meal_type]
               = <<"breakfast", "lunch", "dinner", "snack">>

\* a finished plan holding a leftover, a skipped, an empty and a selected slot
Wit_C1_all_paths ==
    /\ pc = "done"
    /\ \E d \in Days, m \in Slots : Entry(d, m).is_leftover
    /\ \E d \in Days, m \in Slots :
          InSkipSet(d, m) /\ ~Entry(d, m).is_leftover
    /\ \E d \in Days, m \in Slots :
          /\ ~InSkipSet(d, m) /\ ~Entry(d, m).is_leftover
          /\ Entry(d, m).recipe_id = None
    /\ \E d \in Days, m \in Slots : Entry(d, m).recipe_id # None

CE_C3_every_selection ==
    pc = "done" =>
        \A d \in 1..6, m2 \in Slots, m \in Slots :
            Targets(d, m2, m) => LeftoverOf(Entry(d + 1, m), d, m2)

\* C3 amended: the target slot of day N+1 is a leftover of the recipe that
\* was selected last on day N among those leaving leftovers for that slot,
\* also when the target slot is in the skip set.
Thm_C3_last_selection ==
    pc = "done" =>
        \A d \in 1..6, m2 \in Slots, m \in Slots :
            (Targets(d, m2, m) /\ \A m3 \in Slots : m3 > m2 => ~Targets(d, m3, m))
                => LeftoverOf(Entry(d + 1, m), d, m2)

\* a leftover entry sits in a slot of the skip set
Wit_C3_leftover_over_skip ==
    /\ pc = "done"
    /\ \E d \in 1..6, m2 \in Slots, m \in Slots :
          /\ Targets(d, m2, m)
          /\ InSkipSet(d + 1, m)
          /\ Entry(d + 1, m).is_leftover

\* C4: on a day whose high-effort allowance is false or absent, the recipe
\* selected for dinner, if any, takes at most 30 minutes in total.
Thm_C4_low_effort_dinner ==
    \A d \in 1..Len(Built) :
        (/\ Len(Built[d].meals) >= 3
         /\ ~AllowsHighEffort(d)
         /\ Built[d].meals[3].recipe_id # None)
        => LET r == CatalogRecipe(Get(Built[d].meals[3].recipe_id))
           IN  r.prep_time_min + r.cook_time_min <= 30

\* a recency-forbidden recipe is selected for dinner, by the fallback, on a
\* day that the allowance map does not mention
Wit_C4_fallback_dinner ==
    /\ pc = "done"
    /\ \E d \in Days :
          /\ DayName(d) \notin DOMAIN config.allow_high_effort_dinner
          /\ config.allow_high_effort_dinner # EmptyMap
          /\ Entry(d, 3).recipe_id # None
          /\ Get(Entry(d, 3).recipe_id) \in recent_recipes

\* C5 as stated: with a window of 0, a recipe id found in any entry of the
\* history is selected only where every candidate of the slot is such a
\* recipe.
CE_C5_any_entry ==
    config.variability_window_weeks = 0 =>
        \A d \in 1..Len(Built) : \A m \in 1..Len(Built[d].meals) :
            (/\ Built[d].meals[m].recipe_id # None
             /\ Get(Built[d].meals[m].recipe_id) \in HistoryIds(FALSE))
            => \A r \in BaseCandidates(d, m) : r.id \in HistoryIds(FALSE)

\* C5 amended: with a window of 0, a recipe id found in a history entry whose
\* week key is a date is selected only where every candidate of the slot
\* (after the slot-tag and effort filters) is such a recipe.
Thm_C5_dated_entries ==
    config.variability_window_weeks = 0 =>
        \A d \in 1..Len(Built) : \A m \in 1..Len(Built[d].meals) :
            (/\ Built[d].meals[m].recipe_id # None
             /\ Get(Built[d].meals[m].recipe_id) \in HistoryIds(TRUE))
            => \A r \in BaseCandidates(d, m) : r.id \in HistoryIds(TRUE)

\* with a window of 0, a slot had a candidate used two weeks ago and another
\* recipe was selected
Wit_C5_avoided ==
    /\ pc = "done"
    /\ config.variability_window_weeks = 0
    /\ \E d \in Days, m \in Slots :
          /\ Entry(d, m).recipe_id # None
          /\ Get(Entry(d, m).recipe_id) \notin HistoryIds(TRUE)
          /\ \E r \in BaseCandidates(d, m) :
                /\ history # None
                /\ isoformat(config.week_start_date - 14) \in DOMAIN Get(history)
                /\ r.id \in SeqToSet(Get(history)[isoformat(config.week_start_date - 14)])

\* C6: with a window W > 0 the forbidden set is exactly the union of the
\* recipe ids of the entries whose week date d has
\* 0 < floor((week_start_date - d) / 7) <= W.
Thm_C6_window ==
    (pc # "start" /\ config.variability_window_weeks > 0) =>
        recent_recipes =
            IF history = None THEN {}
            ELSE { id \in RecipeIds :
                     \E k \in DOMAIN Get(history) :
                        /\ k.iso
                        /\ 0 < (config.week_start_date - k.day) \div 7
                        /\ (config.week_start_date - k.day) \div 7
                              <= config.variability_window_weeks
                        /\ \E i \in 1..Len(Get(history)[k]) :
                              Get(history)[k][i] = id }

\* two entries, one 7 days back that contributes and one 6 days back that
\* does not
Wit_C6_boundary ==
    /\ pc # "start"
    /\ config.variability_window_weeks > 0
    /\ history # None
    /\ DOMAIN Get(history) = { isoformat(config.week_start_date - 7),
                               isoformat(config.week_start_date - 6) }
    /\ Get(history)[isoformat(config.week_start_date - 7)] = <<"roast">>
    /\ Get(history)[isoformat(config.week_start_date - 6)] = <<"toast", "pasta">>
    /\ recent_recipes = {"roast"}

\* C7: a slot that is neither a leftover nor skipped and has a recipe passing
\* the slot-tag (and effort) filter is filled; from the non-forbidden such
\* recipes when there is one, from all of them otherwise.
Thm_C7_recency_fallback ==
    \A d \in 1..Len(Built) : \A m \in 1..Len(Built[d].meals) :
        (/\ ~Built[d].meals[m].is_leftover
         /\ ~InSkipSet(d, m)
         /\ BaseCandidates(d, m) # {})
        => /\ Built[d].meals[m].recipe_id # None
           /\ LET id == Get(Built[d].meals[m].recipe_id)
                  fresh == { r \in BaseCandidates(d, m) :
                               r.id \notin recent_recipes }
              IN  IF fresh = {}
                  THEN \E r \in BaseCandidates(d, m) : r.id = id
                  ELSE \E r \in fresh : r.id = id

\* one slot filled by the fallback and another filled after a real removal
Wit_C7_both_cases ==
    /\ pc = "done"
    /\ \E d \in Days, m \in Slots :
          /\ Entry(d, m).recipe_id # None
          /\ \A r \in BaseCandidates(d, m) : r.id \in recent_recipes
    /\ \E d \in Days, m \in Slots :
          /\ Entry(d, m).recipe_id # None
          /\ Get(Entry(d, m).recipe_id) \notin recent_recipes
          /\ \E r \in BaseCandidates(d, m) : r.id \in recent_recipes

\* C8: a selected recipe carries the meal tag of the slot it is placed in.
Thm_C8_slot_tag ==
    \A d \in 1..Len(Built) : \A m \in 1..Len(Built[d].meals) :
        Built[d].meals[m].recipe_id # None =>
            LET r == CatalogRecipe(Get(Built[d].meals[m].recipe_id))
            IN  \E i \in 1..Len(r.meals) : r.meals[i] = MealName(m)

\* a recipe tagged for two meals is placed in both, once by the fallback
Wit_C8_two_tags ==
    /\ pc = "done"
    /\ "pasta" \in recent_recipes
    /\ \E d \in Days : Entry(d, 2).recipe_id = Some("pasta")
    /\ \E d \in Days : Entry(d, 3).recipe_id = Some("pasta")

\* C9: no exception leaves generate_plan; a slot without candidate becomes
\* an empty entry and the walk goes on to the full 7 x 4 plan.
Thm_C9_never_raises ==
    /\ pc \in {"start", "day", "meal", "done"}
    /\ \A d \in 1..Len(Built) : \A m \in 1..Len(Built[d].meals) :
          (/\ ~Built[d].meals[m].is_leftover
           /\ ~InSkipSet(d, m)
           /\ BaseCandidates(d, m) = {})
          => /\ Built[d].meals[m].recipe_id = None
             /\ Built[d].meals[m].recipe_name = None
             /\ Built[d].meals[m].total_time_min = None
             /\ Built[d].meals[m].leftover_source_id = None
    /\ pc = "done" =>
          /\ Len(LastPlan.days) = 7
          /\ \A d \in Days : Len(LastPlan.days[d].meals) = 4

\* a finished plan in which a slot without candidate is followed, the same
\* day, by a selected one
Wit_C9_empty_then_selected ==
    /\ pc = "done"
    /\ \E d \in Days, m \in 1..3 :
          /\ ~Entry(d, m).is_leftover
          /\ ~InSkipSet(d, m)
          /\ BaseCandidates(d, m) = {}
          /\ Entry(d, m).recipe_id = None
          /\ \E m2 \in (m + 1)..4 : Entry(d, m2).recipe_id # None

\* C10 as stated: two invocations with the same explicit seed and arguments
\* return plans equal in every field, generated_at included.
CE_C10_identical ==
    Len(returned) = 2 => returned[1] = returned[2]

\* C10 amended: the two plans are equal in every field but generated_at;
\* the second invocation rebuilds the first plan entry by entry.
Thm_C10_same_but_timestamp ==
    /\ Len(returned) = 2 =>
          /\ returned[1].days = returned[2].days
          /\ returned[1].metadata = returned[2].metadata
          /\ returned[1].summary = returned[2].summary
          /\ returned[1].seed = returned[2].seed
          /\ returned[1].week_start_date = returned[2].week_start_date
    /\ (Len(returned) = 1 /\ pc \in {"day", "meal"}) =>
          \A d \in 1..Len(plan_days) : \A m \in 1..Len(plan_days[d].meals) :
              LET a == plan_days[d].meals[m]
                  b == returned[1].days[d].meals[m]
              IN  /\ a.meal_type = b.meal_type
                  /\ a.recipe_id = b.recipe_id
                  /\ a.recipe_name = b.recipe_name
                  /\ a.total_time_min = b.total_time_min
                  /\ a.is_leftover = b.is_leftover
                  /\ a.leftover_source_id = b.leftover_source_id
                  /\ a.leftover_source_name = b.leftover_source_name

\* two plans returned at different times, with a dinner drawn among several
\* candidates
Wit_C10_two_runs ==
    /\ Len(returned) = 2
    /\ seed # None
    /\ returned[1].generated_at # returned[2].generated_at
    /\ \E d \in Days :
          /\ returned[2].days[d].meals[3].recipe_id # None
          /\ Cardinality({ r \in BaseCandidates(d, 3) :
                             r.id \notin recent_recipes }) >= 2

\* C11: every meal entry of a plan is a leftover entry (is_leftover, no
\* recipe_id, no total_time_min, recipe_name and leftover_source_name both the
\* name and leftover_source_id the id of one catalog recipe), or a selected
\* entry (recipe_id, recipe_name, total_time_min of one catalog recipe, not a
\* leftover, no leftover source), or an empty entry (all of these null, not
\* a leftover); a leftover source is present only on a leftover entry.
Thm_C11_three_shapes ==
    \A d \in 1..Len(Built) : \A m \in 1..Len(Built[d].meals) :
        LET e == Built[d].meals[m]
            IsLeftover ==
                /\ e.is_leftover
                /\ e.recipe_id = None
                /\ e.total_time_min = None
                /\ e.recipe_name = e.leftover_source_name
                /\ \E r \in SeqToSet(recipes) :
                      /\ e.leftover_source_id = <<r.id>>
                      /\ e.leftover_source_name = <<r.name>>
            IsSelected ==
                /\ ~e.is_leftover
                /\ e.leftover_source_id = None
                /\ e.leftover_source_name = None
                /\ \E r \in SeqToSet(recipes) :
                      /\ e.recipe_id = <<r.id>>
                      /\ e.recipe_name = <<r.name>>
                      /\ e.total_time_min = <<r.prep_time_min + r.cook_time_min>>
            IsEmpty ==
                /\ ~e.is_leftover
                /\ e.recipe_id = None
                /\ e.recipe_name = None
                /\ e.total_time_min = None
                /\ e.leftover_source_id = None
                /\ e.leftover_source_name = None
        IN  /\ IsLeftover \/ IsSelected \/ IsEmpty
            /\ (e.leftover_source_id # None \/ e.leftover_source_name # None)
                  => e.is_leftover

\* a returned plan holding a leftover entry, a selected entry, a skipped
\* entry and an entry left empty for want of candidates
Wit_C11_all_shapes ==
    /\ pc = "done"
    /\ \E d \in Days, m \in Slots : Entry(d, m).is_leftover
    /\ \E d \in Days, m \in Slots : Entry(d, m).recipe_id # None
    /\ \E d \in Days, m \in Slots :
          /\ InSkipSet(d, m)
          /\ Entry(d, m).recipe_name = None
    /\ \E d \in Days, m \in Slots :
          /\ ~InSkipSet(d, m)
          /\ Entry(d, m).recipe_name = None

\* C12 as stated: every leftover entry of day N+1 references the recipe
\* selected for the dinner slot of day N.
CE_C12_previous_dinner ==
    \A d \in 2..Len(Built) : \A m \in 1..Len(Built[d].meals) :
        Built[d].meals[m].is_leftover =>
            Built[d].meals[m].leftover_source_id = Built[d - 1].meals[3].recipe_id

\* C12 amended: no entry of the first day is a leftover, and every leftover
\* entry of day N+1 references a recipe selected for some slot of day N,
\* whatever its meal, that produces leftovers and names the entry's meal as
\* the meal its leftovers replace.
Thm_C12_previous_day_selection ==
    \A d \in 1..Len(Built) : \A m \in 1..Len(Built[d].meals) :
        LET e == Built[d].meals[m]
        IN  e.is_leftover =>
              /\ d > 1
              /\ \E m2 \in Slots : \E r \in SeqToSet(recipes) :
                    /\ Built[d - 1].meals[m2].recipe_id = <<r.id>>
                    /\ e.leftover_source_id = <<r.id>>
                    /\ e.leftover_source_name = <<r.name>>
                    /\ r.produces_leftovers
                    /\ r.leftovers_replace_meal = <<MealName(m)>>

\* a leftover lunch left by the previous day's lunch selection while that
\* day's dinner selected another recipe
Wit_C12_lunch_leftover ==
    /\ pc = "done"
    /\ \E d \in 2..7 :
          /\ Entry(d, 2).is_leftover
          /\ Entry(d, 2).leftover_source_id = Entry(d - 1, 2).recipe_id
          /\ Entry(d - 1, 3).recipe_id # None
          /\ Entry(d - 1, 3).recipe_id # Entry(d - 1, 2).recipe_id

\* the prep-item names of the catalogs
PrepItems == {"stock", "beans"}

\* the recipe name once per occurrence of prep item p in the yields list
Occurrences(yields, p, name) ==
    LET IsP(x) == x = p
    IN  [i \in 1..Len(SelectSeq(yields, IsP)) |-> name]

RECURSIVE YieldedBy(_, _)
\* the names contributed to prep item p by the first k slots of the latest
\* plan, slots counted in day and slot order
YieldedBy(p, k) ==
    IF k = 0 THEN <<>>
    ELSE LET e == Entry(((k - 1) \div 4) + 1, ((k - 1) % 4) + 1)
         IN  IF e.recipe_id = None THEN YieldedBy(p, k - 1)
             ELSE YieldedBy(p, k - 1) \o
                  Occurrences(CatalogRecipe(e.recipe_id[1]).yields_prep_item,
                              p, CatalogRecipe(e.recipe_id[1]).name)

\* C13: the summary of a returned plan maps each prep item yielded by some
\* selected slot to the names of the yielding recipes, one element per
\* selected slot and yields entry in day and slot order; leftover and empty
\* slots contribute nothing and prep items yielded by no slot are absent.
Thm_C13_summary ==
    pc = "done" =>
        LET summary == LastPlan.summary.yielded_prep_items
        IN  /\ DOMAIN summary = { p \in PrepItems : YieldedBy(p, 28) # <<>> }
            /\ \A p \in DOMAIN summary : summary[p] = YieldedBy(p, 28)

\* a returned plan in which one recipe yielding stock is selected twice,
\* another recipe yields it too, and a leftover of a yielding recipe occurs
Wit_C13_repeated_recipe ==
    /\ pc = "done"
    /\ "stock" \in DOMAIN LastPlan.summary.yielded_prep_items
    /\ LET names == LastPlan.summary.yielded_prep_items["stock"]
       IN  /\ \E i, j \in 1..Len(names) : i < j /\ names[i] = names[j]
           /\ \E i, j \in 1..Len(names) : names[i] # names[j]
    /\ \E d \in Days, m \in Slots :
          /\ Entry(d, m).is_leftover
          /\ CatalogRecipe(Entry(d, m).leftover_source_id[1]).yields_prep_item
                # <<>>

\* the grocery list the groceries command computed
Items == grocery_items[1]

\* lower case of the ingredient and pantry names
Folded(s) ==
    CASE s \in {"Butter", "butter"} -> "butter"
      [] s \in {"Tomato", "TOMATO", "tomato"} -> "tomato"
      [] s \in {"Water", "water"} -> "water"
      [] OTHER -> s

\* the bucket key of a grocery item or of an ingredient
KeyOf(x) == <<Folded(x.item), x.unit>>

\* the configured pantry, case folded
FoldedPantry ==
    { Folded(grocery_data.pantry[i]) : i \in 1..Len(grocery_data.pantry) }

\* slot m of day d holds a recipe_id that the groceries' catalog knows
Contributes(d, m) ==
    /\ Entry(d, m).recipe_id # None
    /\ \E r \in SeqToSet(grocery_recipes) : r.id = Entry(d, m).recipe_id[1]

\* the recipe of a contributing slot
SlotRecipe(d, m) ==
    CHOOSE r \in SeqToSet(grocery_recipes) : r.id = Entry(d, m).recipe_id[1]

\* the ingredients of the slot that fall into the bucket, in recipe order
SlotIngredients(d, m, key) ==
    LET InBucket(x) == KeyOf(x) = key
    IN  IF Contributes(d, m)
        THEN SelectSeq(SlotRecipe(d, m).ingredients, InBucket)
        ELSE <<>>

\* quarters of a unit bought per unit of qty when the recipe is cooked for
\* n people: 4 * n / servings_per_recipe, and 4 for a recipe of zero servings
Scale(r, n) ==
    IF r.servings_per_recipe = 0 THEN 4 ELSE (4 * n) \div r.servings_per_recipe

RECURSIVE SumQty(_)
SumQty(ings) == IF ings = <<>> THEN 0 ELSE Head(ings).qty + SumQty(Tail(ings))

RECURSIVE QuantityOf(_, _, _)
\* the quantity, in quarters, that the first k slots of the plan add to the
\* bucket when every recipe is scaled for n people
QuantityOf(key, k, n) ==
    IF k = 0 THEN 0
    ELSE LET d == ((k - 1) \div 4) + 1
             m == ((k - 1) % 4) + 1
             ings == SlotIngredients(d, m, key)
         IN  QuantityOf(key, k - 1, n) +
             (IF ings = <<>> THEN 0
              ELSE SumQty(ings) * Scale(SlotRecipe(d, m), n))

RECURSIVE SourcesOf(_, _)
\* the source descriptions that the first k slots add to the bucket
SourcesOf(key, k) ==
    IF k = 0 THEN <<>>
    ELSE LET d == ((k - 1) \div 4) + 1
             m == ((k - 1) % 4) + 1
             ings == SlotIngredients(d, m, key)
         IN  SourcesOf(key, k - 1) \o
             [i \in 1..Len(ings) |->
                 <<DayName(d), <<"Breakfast", "Lunch", "Dinner", "Snack">>[m]>>]

\* the bucket keys of the non-pantry ingredients of the contributing slots
BucketKeys ==
    UNION { { KeyOf(x) : x \in { y \in SeqToSet(SlotRecipe(s[1], s[2]).ingredients) :
                                    Folded(y.item) \notin FoldedPantry } } :
            s \in { t \in Days \X Slots : Contributes(t[1], t[2]) } }

\* C14 as stated: every grocery quantity is the sum, over the contributing
\* slot and ingredient occurrences of its bucket, of qty times the configured
\* number of people divided by the recipe's servings_per_recipe.
CE_C14_configured_people ==
    grocery_items # None =>
        \A i \in 1..Len(Items) :
            Items[i].quantity =
                QuantityOf(KeyOf(Items[i]), 28, grocery_data.people)

\* C15: no grocery item has a name whose lower case is the lower case of a
\* configured pantry entry, and the list is the list computed with an empty
\* pantry less the pantry items: the other items keep their quantities,
\* sources and order.
Thm_C15_pantry_excluded ==
    grocery_items # None =>
        LET Bought(x) == Folded(x.item) \notin FoldedPantry
        IN  /\ \A i \in 1..Len(Items) : Bought(Items[i])
            /\ Items = SelectSeq(collect_grocery_items(LastPlan,
                                     grocery_recipes, [pantry |-> <<>>]),
                                 Bought)

\* a pantry written with capital letters whose ingredient is used by a
\* recipe in two contributing slots, another ingredient of which is bought
Wit_C15_capital_pantry ==
    /\ grocery_items # None
    /\ \E i \in 1..Len(grocery_data.pantry) :
          /\ grocery_data.pantry[i] # Folded(grocery_data.pantry[i])
          /\ \E s, t \in Days \X Slots :
                /\ s # t
                /\ Contributes(s[1], s[2])
                /\ Contributes(t[1], t[2])
                /\ SlotRecipe(s[1], s[2]) = SlotRecipe(t[1], t[2])
                /\ \E x, y \in SeqToSet(SlotRecipe(s[1], s[2]).ingredients) :
                      /\ Folded(x.item) = Folded(grocery_data.pantry[i])
                      /\ \E j \in 1..Len(Items) : KeyOf(Items[j]) = KeyOf(y)

\* C16: every grocery item has the quantity and the sources added by the
\* slots whose recipe_id is present and known to the catalog, and by no
\* other slot; the aggregation completes whatever the plan holds.
Thm_C16_contributing_slots ==
    /\ grocery_items # None =>
          \A i \in 1..Len(Items) :
              /\ Items[i].sources = SourcesOf(KeyOf(Items[i]), 28)
              /\ Items[i].quantity = QuantityOf(KeyOf(Items[i]), 28, 2)
              /\ Items[i].sources # <<>>
    /\ (grocery_items # None /\ \A d \in Days, m \in Slots : ~Contributes(d, m))
          => Items = <<>>

\* a plan with a leftover slot, an empty slot and a slot whose recipe the
\* catalog lacks, aggregated to a list that is not empty
Wit_C16_stale_recipe ==
    /\ grocery_items # None
    /\ Items # <<>>
    /\ \E d \in Days, m \in Slots : Entry(d, m).is_leftover
    /\ \E d \in Days, m \in Slots :
          ~Entry(d, m).is_leftover /\ Entry(d, m).recipe_id = None
    /\ \E d \in Days, m \in Slots :
          Entry(d, m).recipe_id # None /\ ~Contributes(d, m)

\* C17: the list holds exactly one item for each (lower-cased name, unit)
\* key among the non-pantry ingredients of the contributing slots, so that
\* one name in two units gives two items and one name in two letter cases
\* with one unit gives one item, which sums the quantities of both.
Thm_C17_one_item_per_key ==
    grocery_items # None =>
        /\ { KeyOf(Items[i]) : i \in 1..Len(Items) } = BucketKeys
        /\ \A i, j \in 1..Len(Items) :
               KeyOf(Items[i]) = KeyOf(Items[j]) => i = j
        /\ \A i \in 1..Len(Items) :
               Items[i].quantity = QuantityOf(KeyOf(Items[i]), 28, people)

\* tomato bought by the jar and by weight, the jars for two recipes that
\* spell the name in different letter cases
Wit_C17_units_and_cases ==
    /\ grocery_items # None
    /\ \E i, j \in 1..Len(Items) :
          /\ KeyOf(Items[i]) = <<"tomato", "jar">>
          /\ KeyOf(Items[j]) = <<"tomato", "g">>
    /\ \E s, t \in Days \X Slots :
          /\ Contributes(s[1], s[2])
          /\ Contributes(t[1], t[2])
          /\ \E x \in SeqToSet(SlotRecipe(s[1], s[2]).ingredients) :
                x.item = "tomato" /\ x.unit = "jar"
          /\ \E y \in SeqToSet(SlotRecipe(t[1], t[2]).ingredients) :
                y.item = "Tomato" /\ y.unit = "jar"

\* C18: the list is in ascending order of (category, item name): no item is
\* followed by one of a smaller category, or of the same category and a
\* smaller name.
Thm_C18_sorted ==
    grocery_items # None =>
        \A i \in 1..(Len(Items) - 1) :
            \/ str_lt(Items[i].category, Items[i + 1].category)
            \/ /\ Items[i].category = Items[i + 1].category
               /\ ~str_lt(Items[i + 1].item, Items[i].item)

\* a list of several categories holding two items of one category and two
\* items of one category and name, whose first item was not met first
Wit_C18_several_categories ==
    /\ grocery_items # None
    /\ \E i, j \in 1..Len(Items) : Items[i].category # Items[j].category
    /\ \E i \in 1..(Len(Items) - 1) :
          /\ Items[i].category = Items[i + 1].category
          /\ Items[i].item # Items[i + 1].item
    /\ \E i \in 1..(Len(Items) - 1) :
          /\ Items[i].category = Items[i + 1].category
          /\ Items[i].item = Items[i + 1].item
    /\ \E i \in 2..Len(Items) :
          Items[i].sources[1] = <<"Sunday", "Breakfast">>

Greatest(keys, n) ==
    { k \in keys : Cardinality({ j \in keys : week_lt(k, j) }) < n }

\* C20: after a record_plan call with a window W > 0 the file holds at most
\* W entries, those of the W greatest week keys among the keys stored before
\* and the week recorded; after a call with W = 0 it holds every entry
\* stored before, unchanged unless it is the week recorded, and that week.
Thm_C20_retention ==
    recorded # None =>
        LET before == recorded[1].history
            week == recorded[1].week_start
            W == recorded[1].weeks_to_keep
            after == store[1].plans
        IN  /\ store[1].format = "dict"
            /\ W > 0 =>
                  /\ Cardinality(DOMAIN after) <= W
                  /\ DOMAIN after = Greatest(DOMAIN before \cup {week}, W)
            /\ W = 0 =>
                  /\ DOMAIN after = DOMAIN before \cup {week}
                  /\ \A k \in DOMAIN before \ {week} : after[k] = before[k]

\* a call with W > 0 that recorded a new week and dropped entries, among
\* them one not keyed by a date, on a file an earlier call had written to
Wit_C20_pruned ==
    /\ recorded # None
    /\ recorded[1].weeks_to_keep > 0
    /\ recorded[1].week_start \notin DOMAIN recorded[1].history
    /\ Cardinality(DOMAIN recorded[1].history) > recorded[1].weeks_to_keep
    /\ \E k \in DOMAIN recorded[1].history :
          k \notin DOMAIN store[1].plans
    /\ \E k \in DOMAIN recorded[1].history : ~k.iso
    /\ \E k \in DOMAIN store[1].plans :
          /\ k # recorded[1].week_start
          /\ store[1].plans[k] # <<"toast">>

\* C24: on a day without high-effort allowance, when every dinner-tagged
\* recipe of the catalog takes more than 30 minutes, a dinner slot that is
\* neither a leftover nor skipped is empty, whatever the history; and every
\* selected recipe of any slot passes the slot-tag filter and, for dinner,
\* the effort filter, also when recency has fallen back.
Thm_C24_no_effort_fallback ==
    \A d \in 1..Len(Built) : \A m \in 1..Len(Built[d].meals) :
        LET e == Built[d].meals[m]
            dinners == { r \in SeqToSet(recipes) :
                           \E i \in 1..Len(r.meals) : r.meals[i] = "dinner" }
        IN  /\ (/\ m = 3
                /\ ~AllowsHighEffort(d)
                /\ \A r \in dinners : r.prep_time_min + r.cook_time_min > 30
                /\ ~e.is_leftover
                /\ ~InSkipSet(d, m))
               => /\ e.recipe_id = None
                  /\ e.recipe_name = None
                  /\ e.total_time_min = None
            /\ e.recipe_id # None =>
                  \E r \in BaseCandidates(d, m) : e.recipe_id = <<r.id>>

\* a catalog whose only dinner takes 45 minutes and is in the recent
\* history: the dinner of a day without allowance is empty, that of a day
\* with allowance is selected by the recency fallback
Wit_C24_empty_dinner ==
    /\ pc = "done"
    /\ history # None
    /\ \E r \in SeqToSet(recipes) : r.meals = <<"dinner">>
    /\ \A r \in SeqToSet(recipes) :
          (\E i \in 1..Len(r.meals) : r.meals[i] = "dinner")
             => /\ r.prep_time_min + r.cook_time_min > 30
                /\ r.id \in recent_recipes
    /\ \E d \in Days :
          /\ ~AllowsHighEffort(d)
          /\ ~InSkipSet(d, 3)
          /\ ~Entry(d, 3).is_leftover
          /\ Entry(d, 3).recipe_name = None
    /\ \E d \in Days : AllowsHighEffort(d) /\ Entry(d, 3).recipe_id # None

\* C25: leftovers carry one day and never chain.  Every leftover entry of
\* slot m lies on a day after Sunday and references a recipe selected afresh
\* in some slot of the day before, which produces leftovers and names m as
\* the meal they replace; the pending leftovers are those of the day that
\* follows the day being built, each left by a selection of the day being
\* built, none while Saturday is built and none when generation ends.
Thm_C25_one_day ==
    /\ \A d \in 1..Len(Built) : \A m \in 1..Len(Built[d].meals) :
          Built[d].meals[m].is_leftover =>
              /\ d > 1
              /\ \E m2 \in Slots : \E r \in SeqToSet(recipes) :
                    /\ ~Built[d - 1].meals[m2].is_leftover
                    /\ Built[d - 1].meals[m2].recipe_id = <<r.id>>
                    /\ Built[d].meals[m].leftover_source_id = <<r.id>>
                    /\ r.produces_leftovers
                    /\ r.leftovers_replace_meal = <<MealName(m)>>
    /\ pc = "meal" =>
          /\ DOMAIN pending_leftovers \subseteq
                { DayName(n) : n \in {day_index + 1} \cap Days }
          /\ \A day \in DOMAIN pending_leftovers :
                \A meal \in DOMAIN pending_leftovers[day] :
                    \E m2 \in 1..Len(plan_days[day_index].meals) :
                        /\ ~plan_days[day_index].meals[m2].is_leftover
                        /\ plan_days[day_index].meals[m2].recipe_id =
                              <<pending_leftovers[day][meal].id>>
    /\ pc = "day" =>
          DOMAIN pending_leftovers \subseteq
              { DayName(n) : n \in {day_index} \cap Days }
    /\ pc = "done" => pending_leftovers = EmptyMap

\* a returned plan in which a recipe whose leftovers replace dinner was
\* selected for dinner, left a leftover dinner, and the dinner after that
\* was selected afresh; Saturday selected a recipe that produces leftovers
Wit_C25_no_chain ==
    /\ pc = "done"
    /\ \E d \in 1..5 :
          /\ Entry(d, 3).recipe_id # None
          /\ Entry(d + 1, 3).is_leftover
          /\ Entry(d + 1, 3).leftover_source_id = Entry(d, 3).recipe_id
          /\ ~Entry(d + 2, 3).is_leftover
    /\ \E m \in Slots :
          /\ Entry(7, m).recipe_id # None
          /\ CatalogRecipe(Entry(7, m).recipe_id[1]).produces_leftovers
          /\ CatalogRecipe(Entry(7, m).recipe_id[1]).leftovers_replace_meal
                \in {<<"lunch">>, <<"dinner">>}

\* the entries a history file holds: those of the "plans" object, or of the
\* list, where the last entry of a week stands for the week
StoredEntries(file) ==
    IF file = None THEN EmptyMap
    ELSE IF file[1].format = "dict" THEN file[1].plans
    ELSE LET entries == file[1].plans
             LastOf(w) == CHOOSE i \in 1..Len(entries) :
                              /\ entries[i].week_start_date = w
                              /\ \A j \in (i + 1)..Len(entries) :
                                    entries[j].week_start_date # w
         IN  [w \in { entries[i].week_start_date : i \in 1..Len(entries) } |->
                entries[LastOf(w)].recipes]

\* C23: a record_plan call leaves in the file, besides the entry of the
\* plan's week, only entries that the file held before the call, each with
\* the recipe list it had before the call.
Thm_C23_frame ==
    [][store' # None =>
          \A k \in DOMAIN store'[1].plans \ {recorded'[1].week_start} :
              /\ k \in DOMAIN StoredEntries(store)
              /\ store'[1].plans[k] = StoredEntries(store)[k]]_vars

\* a call recorded a week the file already held and kept the entry of
\* another week, read from a file in the list format
Wit_C23_kept_entry ==
    /\ recorded # None
    /\ recorded[1].week_start \in DOMAIN recorded[1].history
    /\ isoformat(7) \in DOMAIN store[1].plans
    /\ store[1].plans[isoformat(7)] = <<"stew">>
    /\ recorded[1].week_start # isoformat(7)

\* the recipe ids of the plan's slots that hold one, in day and slot order
RecipeIdsOf(plan) ==
    LET slots == [k \in 1..(Len(plan.days) * 2) |->
                     plan.days[((k - 1) \div 2) + 1].meals[((k - 1) % 2) + 1]]
        Filled(meal) == meal.recipe_id # <<>>
        filled == SelectSeq(slots, Filled)
    IN  [i \in 1..Len(filled) |-> filled[i].recipe_id[1]]

\* C26 as stated: after every record_plan call, whatever the history and the
\* window, the file holds an entry for the plan's week whose value is the
\* list of the plan's recipe ids in day and slot order.
CE_C26_week_recorded ==
    recorded # None =>
        /\ recorded[1].week_start \in DOMAIN store[1].plans
        /\ store[1].plans[recorded[1].week_start] = RecipeIdsOf(recorded[1].plan)

\* C21 (as stated): a plan command that has failed has written none of its
\* output files and no history update.
CE_C21_all_or_nothing == cli_pc = "failed" => written = <<>>

\* C22: the plan command reads and updates history exactly when a history
\* path was given.  Without one, history is None, the forbidden set of every
\* generation is empty and the history file is never written.  With one,
\* generation runs on the content the file had when the command started, and
\* the file changes only in the record step, once per command, after the
\* JSON and the Markdown of the plan being recorded have been written.
Thm_C22_history_iff_path ==
    /\ [](/\ history_path = None =>
                /\ history = None
                /\ recent_recipes = {}
                /\ \A i \in 1..Len(returned) :
                      returned[i].metadata.recent_recipes = <<>>
                /\ recorded = None
                /\ \A i \in 1..Len(written) : written[i] # "history"
          /\ history_path # None /\ cli_pc = "generate" =>
                history = IF store = None THEN None
                          ELSE Some(StoredEntries(store))
          /\ (\E i \in 1..Len(written) : written[i] = "history") =>
                /\ written = <<"json", "md", "history">>
                /\ recorded # None
                /\ recorded[1].plan = LastPlan
                /\ plan_file = Some(json_dumps(recorded[1].plan))
                /\ plan_md = Some(build_plan_markdown(recorded[1].plan))
          /\ cli_pc = "returned" =>
                written = IF history_path = None THEN <<"json", "md">>
                          ELSE <<"json", "md", "history">>)
    /\ [][store' # store \/ recorded' # recorded =>
             /\ history_path # None
             /\ cli_pc = "record"
             /\ written = <<"json", "md">>
             /\ written' = <<"json", "md", "history">>]_vars

\* the second command of a run with a history path has read the week the
\* first one recorded, and has recorded its own plan
Wit_C22_read_and_recorded ==
    /\ history_path # None
    /\ cli_pc = "returned"
    /\ Len(returned) = 2
    /\ recent_recipes # {}
    /\ recorded # None
    /\ recorded[1].plan = LastPlan

\* C27 (as stated): with a history path and W > 0, while week K is generated
\* the forbidden set holds every recipe id of the plans the earlier commands
\* of the run recorded for the weeks K-1 down to K-W.
CE_C27_window_covered ==
    (/\ history_path # None
     /\ config.variability_window_weeks > 0
     /\ cli_pc = "generate"
     /\ pc \in {"day", "meal"}) =>
        \A j \in 1..Len(returned) :
            LET weeks == (config.week_start_date
                          - returned[j].week_start_date.day) \div 7
            IN  (0 < weeks /\ weeks <= config.variability_window_weeks) =>
                    \A d \in 1..Len(returned[j].days) :
                        \A m \in 1..Len(returned[j].days[d].meals) :
                            LET id == returned[j].days[d].meals[m].recipe_id
                            IN  id # <<>> => id[1] \in recent_recipes

RECURSIVE Pow2(_)
Pow2(k) == IF k = 0 THEN 1 ELSE 2 * Pow2(k - 1)

\* the request loop is over: content returned or an exception raised
ConvertDone == conv_pc \in {"returned", "raised", "exhausted", "sleep_raised"}

\* the waits are retry_delay, doubled after each further failure
Doubling == \A i \in 1..Len(sleeps) : sleeps[i] = retry_delay * Pow2(i - 1)

\* C28 (as stated): after a first failure that is not the last attempt, the
\* loop has waited retry_delay.
CE_C28_waits_after_failure ==
    (ConvertDone /\ max_retries >= 2 /\ requests # <<>>
     /\ requests[1] # "content") =>
        (sleeps # <<>> /\ sleeps[1] = retry_delay)

\* C28 (amended): the loop makes at most max_retries requests and none when
\* max_retries <= 0, where it fails; every request before the last one has
\* failed, content is returned exactly when the last request gave content,
\* and an empty response is a failure.  With retry_delay >= 0 there is one
\* wait after each failure except a failure of the last attempt, the waits
\* are retry_delay doubled each time, and the failure of the last attempt
\* is re-raised.  With retry_delay < 0 the first failure that is not the
\* last attempt ends the loop with the error of the sleep, with no wait.
\* The loop always terminates.
Thm_C28_retry_loop ==
    /\ [](/\ Len(requests) <= (IF max_retries > 0 THEN max_retries ELSE 0)
          /\ Len(requests) = attempt - (IF conv_pc = "request" THEN 1 ELSE 0)
          /\ \A i \in 1..(Len(requests) - 1) : requests[i] # "content"
          /\ conv_pc = "returned" <=>
                (requests # <<>> /\ requests[Len(requests)] = "content")
          /\ conv_pc = "exhausted" <=>
                (max_retries <= 0 /\ conv_pc \notin {"start", "loop"})
          /\ conv_pc = "raised" =>
                /\ Len(requests) = max_retries
                /\ requests[max_retries] # "content"
          /\ retry_delay >= 0 =>
                /\ Doubling
                /\ conv_pc # "sleep_raised"
                /\ Len(sleeps) = Len(requests)
                      - (IF conv_pc \in {"returned", "except", "raised"}
                         THEN 1 ELSE 0)
                /\ conv_pc = "raised" => Len(sleeps) = max_retries - 1
          /\ retry_delay < 0 =>
                /\ sleeps = <<>>
                /\ conv_pc = "sleep_raised" =>
                      Len(requests) = 1 /\ max_retries >= 2)
    /\ <>ConvertDone

\* three requests failed, the last of them empty: two waits, then the
\* failure is re-raised
Wit_C28_retried_and_raised ==
    /\ conv_pc = "raised"
    /\ max_retries = 3
    /\ retry_delay = 2
    /\ requests = <<"error", "empty", "empty">>
    /\ sleeps = <<2, 4>>

====
